---- MODULE Spec2Model ----
(***************************************************************************)
(* A model of the brainfreeze knowledge-graph memory store: the graph      *)
(* client (GraphClient: storeMemory, storeHypotheticalQuestions,           *)
(* updateEntity, getEntityHistory, mergeEntities) and the orchestrator     *)
(* (MemorySystem.remember) that drives it.                                 *)
(*                                                                         *)
(* The Neo4j graph is the state: Memory nodes, Entity nodes, EntityVersion *)
(* nodes, HypotheticalQuestion nodes, and the MENTIONS, typed-relationship *)
(* and PREVIOUS_VERSION edges.  Each Cypher statement of a handler is an   *)
(* operator on that graph; a handler is the composition of its statements. *)
(* A write transaction (session.executeWrite) that throws leaves the graph *)
(* as it was.                                                              *)
(*                                                                         *)
(* Strings are sequences of one-character strings, so that                 *)
(* normalizeEntityName is computed.  A node property that was never SET    *)
(* reads as null: it is the empty tuple, and a set value x is <<x>>.       *)
(* datetime() inside storeMemory is the ordinal of the memory being        *)
(* stored, and so is Memory.timestamp.  Entity.firstSeen/lastSeen/         *)
(* updatedAt are not read by any modelled handler and are left out.  The   *)
(* content, summary and embedding of a Memory are written once, as the     *)
(* ones its caller gave: they are named by the ordinal of the memory.  An  *)
(* embedding is compared only by the vector index, whose answer is an      *)
(* input of the search handlers.                                           *)
(***************************************************************************)
EXTENDS Integers, Sequences, FiniteSets, Bags, TLC

(***************************************************************************)
(* Bounds of the model.                                                    *)
(***************************************************************************)
MaxMemories == 2
MaxEntities == 3
MaxUpdates == 2
MaxClock == 2
MaxQuestions == 2
MaxLimit == 4
MaxSearches == 1

(***************************************************************************)
(* Input alphabets.                                                        *)
(***************************************************************************)
Names ==
  { <<"A", " ", "l">>, <<" ", "a", " ", "L", " ">>, <<"A", " ", " ", "l">> }
RelTypes == {"KNOWS"}
\* The callers that can have a call in progress at the same time.
Sessions == {"s1", "s2"}
MemoryTypes == {"episodic", "todo"}
PropertyUpdates ==
  { [k \in {"email"} |-> "old"],
    [k \in {"email"} |-> "new"],
    [k \in {"phone"} |-> "555"],
    [k \in {"email", "phone"} |-> IF k = "email" THEN "old" ELSE "555"] }

Null == <<>>
Some(x) == <<x>>
IsNull(o) == o = <<>>
\* JavaScript `o || d` / Cypher coalesce(o, d) on a nullable property.
OrElse(o, d) == IF o = <<>> THEN d ELSE o[1]

VARIABLES
  memories,     \* Memory nodes: id -> [type, status, timestamp, resolutionSummary, resolvedAt]
  entities,     \* Entity nodes: id -> [name, normalizedName, type, aliases, properties, version]
  mentions,     \* bag of MENTIONS edges <<memory id, entity id>>
  rels,         \* typed relationship edges [from, type, to, context, firstSeen, lastSeen]
  versions,     \* EntityVersion nodes: id -> [entityId, version, name, properties]
  pv,           \* bag of PREVIOUS_VERSION edges <<source node, EntityVersion id>>
  questions,    \* bag of HypotheticalQuestion nodes, each by the Memory its FOR_MEMORY edge points to
  nextEntity,   \* randomUUID() for Entity nodes: the next fresh id
  inflight,     \* updateEntity calls that have read the entity and not yet written
  outcome,      \* the last call: [op, args, ok, error, value]
  hist          \* history of the calls made (read by no handler)

graph == <<memories, entities, mentions, rels, versions, pv, questions, nextEntity>>
vars ==
  <<memories, entities, mentions, rels, versions, pv, questions, nextEntity,
    inflight, outcome, hist>>

(***************************************************************************)
(* Strings.                                                                *)
(***************************************************************************)
ToLowerChar(c) ==
  CASE c = "A" -> "a"
    [] c = "L" -> "l"
    [] OTHER -> c

ToLowerCase(s) == [i \in 1..Len(s) |-> ToLowerChar(s[i])]

RECURSIVE TrimStart(_)
TrimStart(s) ==
  IF s # <<>> /\ Head(s) = " " THEN TrimStart(Tail(s)) ELSE s

RECURSIVE TrimEnd(_)
TrimEnd(s) ==
  IF s # <<>> /\ s[Len(s)] = " " THEN TrimEnd(SubSeq(s, 1, Len(s) - 1)) ELSE s

Trim(s) == TrimEnd(TrimStart(s))

\* The key without the lower-casing.
normalizeEntityNameTrimOnly(name) == Trim(name)

normalizeEntityName(name) == Trim(ToLowerCase(name))

(***************************************************************************)
(* Graph nodes as PREVIOUS_VERSION endpoints.                              *)
(***************************************************************************)
EntityNode(id) == <<"Entity", id>>
VersionNode(id) == <<"EntityVersion", id>>

\* F(argument), with the argument evaluated once, before the call, as
\* JavaScript does.
ByValue(F(_), argument) == CHOOSE result \in {F(value) : value \in {argument}} : TRUE

\* The greatest of a set of numbers.
Max(S) == CHOOSE x \in S : \A y \in S : y <= x
\* A function with one more (or one overwritten) point.
Put(f, k, v) == [x \in DOMAIN f \cup {k} |-> IF x = k THEN v ELSE f[x]]
\* A function without the points in S.
Drop(f, S) == [x \in DOMAIN f \ S |-> f[x]]

MentionCount(M, m, e) == CopiesIn(<<m, e>>, M)
\* count(m) over MATCH (m:Memory)-[:MENTIONS]->(e): the MENTIONS edges into e.
RECURSIVE SumCopies(_, _)
SumCopies(B, S) ==
  IF S = {} THEN 0
  ELSE LET x == CHOOSE y \in S : TRUE
       IN B[x] + SumCopies(B, S \ {x})
MentionsInto(M, e) == SumCopies(M, {x \in DOMAIN M : x[2] = e})
MentioningMemories(M, e) == {x[1] : x \in {y \in DOMAIN M : y[2] = e}}

(***************************************************************************)
(* The graph as one value, threaded through the statements of a            *)
(* transaction.                                                            *)
(***************************************************************************)
Graph ==
  [ memories |-> memories, entities |-> entities, mentions |-> mentions,
    rels |-> rels, versions |-> versions, pv |-> pv,
    questions |-> questions, nextEntity |-> nextEntity ]

\* The transaction function returned: its writes become visible.
Commit(g) ==
  /\ memories' = g.memories
  /\ entities' = g.entities
  /\ mentions' = g.mentions
  /\ rels' = g.rels
  /\ versions' = g.versions
  /\ pv' = g.pv
  /\ questions' = g.questions
  /\ nextEntity' = g.nextEntity

\* The transaction function threw: executeWrite rolls every write back.
Rollback == UNCHANGED graph

Returned(op, args, value) ==
  [op |-> op, args |-> args, ok |-> TRUE, error |-> "none", value |-> value]
Threw(op, args, error) ==
  [op |-> op, args |-> args, ok |-> FALSE, error |-> error, value |-> <<>>]

(***************************************************************************)
(* GraphClient.storeMemory                                                 *)
(***************************************************************************)
\* CREATE (m:Memory {...}): status is written only when the caller gave one.
\* memory.timestamp is the caller's new Date(): the ordinal of the memory.
\* No caller gives a resolutionSummary or a resolvedAt.
CreateMemory(g, m, mtype, status) ==
  [g EXCEPT !.memories =
     Put(@, m, [content |-> m, summary |-> m, embedding |-> m,
                type |-> mtype, status |-> status, timestamp |-> m,
                resolutionSummary |-> Null, resolvedAt |-> Null])]

\* MATCH (e:Entity {id: $entityId}) ... CREATE (m)-[:MENTIONS]->(e)
LinkResolvedEntity(g, m, entityId) ==
  IF entityId \in DOMAIN g.entities
    THEN [g EXCEPT !.mentions = @ (+) SetToBag({<<m, entityId>>})]
    ELSE g

\* MERGE (e:Entity {normalizedName, type}) ON CREATE ... ON MATCH SET e.name
\* ... CREATE (m)-[:MENTIONS]->(e), one row per matched entity.
MergeEntityByName(g, m, name, type) ==
  LET normalizedName == normalizeEntityName(name)
      matched == {e \in DOMAIN g.entities :
                    /\ g.entities[e].normalizedName = normalizedName
                    /\ g.entities[e].type = type}
      id == g.nextEntity
  IN IF matched = {}
       THEN [g EXCEPT
               !.entities = Put(@, id,
                  [name |-> name, normalizedName |-> normalizedName,
                   type |-> type, aliases |-> Null, properties |-> Null,
                   version |-> Null]),
               !.nextEntity = @ + 1,
               !.mentions = @ (+) SetToBag({<<m, id>>})]
       ELSE [g EXCEPT
               !.entities = [e \in DOMAIN @ |->
                  IF e \in matched THEN [@[e] EXCEPT !.name = name] ELSE @[e]],
               !.mentions = @ (+) SetToBag({<<m, e>> : e \in matched})]

\* for (const entity of entities) { if (entity.resolvedId) ... else ... }
RECURSIVE StoreEntities(_, _, _)
StoreEntities(g, m, ents) ==
  IF ents = <<>> THEN g
  ELSE LET entity == Head(ents)
           g1 == IF ~IsNull(entity.resolvedId)
                   THEN LinkResolvedEntity(g, m, entity.resolvedId[1])
                   ELSE MergeEntityByName(g, m, entity.name, entity.type)
       IN StoreEntities(g1, m, Tail(ents))

EntitiesById(g, id) == {e \in DOMAIN g.entities : e = id}
EntitiesByNormalizedName(g, name) ==
  {e \in DOMAIN g.entities :
     g.entities[e].normalizedName = normalizeEntityName(name)}

\* The MERGE with ON MATCH SET r.lastSeen, r.context = $context.
MergeRelationshipContextOnMatch(g, m, from, to, type, context) ==
  LET matched == {r \in g.rels : r.from \in from /\ r.to \in to /\ r.type = type}
      fresh == {p \in from \X to :
                  ~\E r \in matched : r.from = p[1] /\ r.to = p[2]}
  IN [g EXCEPT !.rels =
        (@ \ matched)
        \cup {[r EXCEPT !.lastSeen = Some(m), !.context = context] : r \in matched}
        \cup {[from |-> p[1], type |-> type, to |-> p[2], context |-> context,
               firstSeen |-> m, lastSeen |-> Null] : p \in fresh}]

\* MERGE (from)-[r:`type`]->(to) ON CREATE SET r.firstSeen, r.context
\* ON MATCH SET r.lastSeen, one row per (from, to) pair matched.
MergeRelationship(g, m, from, to, type, context) ==
  LET matched == {r \in g.rels : r.from \in from /\ r.to \in to /\ r.type = type}
      fresh == {p \in from \X to :
                  ~\E r \in matched : r.from = p[1] /\ r.to = p[2]}
  IN [g EXCEPT !.rels =
        (@ \ matched)
        \cup {[r EXCEPT !.lastSeen = Some(m)] : r \in matched}
        \cup {[from |-> p[1], type |-> type, to |-> p[2], context |-> context,
               firstSeen |-> m, lastSeen |-> Null] : p \in fresh}]

\* entityResolutions left undefined by the caller.
NoResolutions == [n \in {} |-> 0]

\* entityResolutions?.get(name)
EntityResolutionsGet(entityResolutions, name) ==
  IF name \in DOMAIN entityResolutions THEN Some(entityResolutions[name]) ELSE Null

\* One iteration of `for (const rel of relationships)`.
StoreRelationship(g, m, rel, entityResolutions) ==
  LET fromResolvedId == EntityResolutionsGet(entityResolutions, rel.from)
      toResolvedId == EntityResolutionsGet(entityResolutions, rel.to)
      context == OrElse(rel.context, "")
  IN CASE ~IsNull(fromResolvedId) /\ ~IsNull(toResolvedId) ->
            MergeRelationship(g, m, EntitiesById(g, fromResolvedId[1]),
                              EntitiesById(g, toResolvedId[1]), rel.type, context)
       [] ~IsNull(fromResolvedId) /\ IsNull(toResolvedId) ->
            MergeRelationship(g, m, EntitiesById(g, fromResolvedId[1]),
                              EntitiesByNormalizedName(g, rel.to), rel.type, context)
       [] IsNull(fromResolvedId) /\ ~IsNull(toResolvedId) ->
            MergeRelationship(g, m, EntitiesByNormalizedName(g, rel.from),
                              EntitiesById(g, toResolvedId[1]), rel.type, context)
       [] OTHER ->
            MergeRelationship(g, m, EntitiesByNormalizedName(g, rel.from),
                              EntitiesByNormalizedName(g, rel.to), rel.type, context)

\* The loop ended by the first relationship that matches no pair of entities.
RECURSIVE StoreRelationshipsUntilMissing(_, _, _, _)
StoreRelationshipsUntilMissing(g, m, relationships, entityResolutions) ==
  IF relationships = <<>> THEN g
  ELSE IF StoreRelationship(g, m, Head(relationships), entityResolutions) = g THEN g
  ELSE StoreRelationshipsUntilMissing(
         StoreRelationship(g, m, Head(relationships), entityResolutions),
         m, Tail(relationships), entityResolutions)

RECURSIVE StoreRelationships(_, _, _, _)
StoreRelationships(g, m, relationships, entityResolutions) ==
  IF relationships = <<>> THEN g
  ELSE StoreRelationships(
         StoreRelationship(g, m, Head(relationships), entityResolutions),
         m, Tail(relationships), entityResolutions)

\* The whole executeWrite transaction of storeMemory.
storeMemoryTx(g, m, mtype, status, ents, relationships, entityResolutions) ==
  StoreRelationships(
    StoreEntities(CreateMemory(g, m, mtype, status), m, ents),
    m, relationships, entityResolutions)

\* crypto.randomUUID() of the caller: an id no Memory has.
NewMemoryId == Cardinality(DOMAIN memories) + 1

(***************************************************************************)
(* GraphClient.storeHypotheticalQuestions                                  *)
(***************************************************************************)
\* CREATE (hq:HypotheticalQuestion {...}) WITH hq MATCH (m:Memory {id})
\* CREATE (hq)-[:FOR_MEMORY]->(m), once per question: the node is created
\* whether or not the memory is found.
storeHypotheticalQuestionsTx(g, memoryId, questionCount) ==
  LET target == IF memoryId \in DOMAIN g.memories THEN Some(memoryId) ELSE Null
  IN IF questionCount = 0 THEN g
     ELSE [g EXCEPT !.questions = @ (+) [x \in {target} |-> questionCount]]

(***************************************************************************)
(* GraphClient.updateEntity                                                *)
(***************************************************************************)
\* A JSON object text is the set of its "key": "value" members.
JsonStringify(object) == {<<k, object[k]>> : k \in DOMAIN object}
JsonParse(json) ==
  [k \in {p[1] : p \in json} |-> (CHOOSE p \in json : p[1] = k)[2]]
EmptyJson == {}

\* The new properties being the updates alone.
ObjectSpreadUpdatesOnly(currentProperties, propertyUpdates) == propertyUpdates

\* { ...currentProperties, ...propertyUpdates }
ObjectSpread(currentProperties, propertyUpdates) ==
  [k \in DOMAIN currentProperties \cup DOMAIN propertyUpdates |->
     IF k \in DOMAIN propertyUpdates
       THEN propertyUpdates[k] ELSE currentProperties[k]]

\* MATCH (e:Entity {id}) RETURN e.name, e.properties, e.version, and the
\* defaults the handler applies to what it read.
ReadEntity(g, entityId) ==
  LET e == g.entities[entityId]
  IN [ name |-> e.name,
       properties |-> JsonParse(OrElse(e.properties, EmptyJson)),
       version |-> OrElse(e.version, 0) ]

VersionsOf(g, entityId, version) ==
  {v \in DOMAIN g.versions :
     g.versions[v].entityId = entityId /\ g.versions[v].version = version}

\* CREATE (ev:EntityVersion {id: randomUUID(), entityId, version, name, properties})
CreateEntityVersion(g, entityId, current) ==
  [g EXCEPT !.versions = Put(@, Cardinality(DOMAIN @) + 1,
      [entityId |-> entityId, version |-> current.version,
       name |-> current.name,
       properties |-> JsonStringify(current.properties)])]

\* MATCH (e) OPTIONAL MATCH (e)-[r:PREVIOUS_VERSION]->() DELETE r WITH e
\* MATCH (ev:EntityVersion {entityId, version}) CREATE (e)-[:PREVIOUS_VERSION]->(ev)
\* OPTIONAL MATCH yields one row per old edge (one row when there is none),
\* and CREATE runs once per row and matched ev.
LinkEntityToVersion(g, entityId, version) ==
  IF entityId \notin DOMAIN g.entities THEN g
  ELSE LET old == {x \in DOMAIN g.pv : x[1] = EntityNode(entityId)}
           n == SumCopies(g.pv, old)
           rows == IF n = 0 THEN 1 ELSE n
           kept == [x \in DOMAIN g.pv \ old |-> g.pv[x]]
           new == {<<EntityNode(entityId), v>> : v \in VersionsOf(g, entityId, version)}
       IN [g EXCEPT !.pv = kept (+) [x \in new |-> rows]]

\* MATCH (ev1 {entityId, version: current}) MATCH (ev2 {entityId, version: current - 1})
\* MERGE (ev1)-[:PREVIOUS_VERSION]->(ev2)
LinkVersionToPrevious(g, entityId, currentVersion) ==
  LET pairs == {<<VersionNode(v1), v2>> :
                  v1 \in VersionsOf(g, entityId, currentVersion),
                  v2 \in VersionsOf(g, entityId, currentVersion - 1)}
      missing == {x \in pairs : CopiesIn(x, g.pv) = 0}
  IN [g EXCEPT !.pv = @ (+) SetToBag(missing)]

\* MATCH (e:Entity {id}) SET e.properties = $properties, e.version = $version
SetEntityProperties(g, entityId, newProperties, version) ==
  IF entityId \notin DOMAIN g.entities THEN g
  ELSE [g EXCEPT !.entities[entityId] =
          [@ EXCEPT !.properties = Some(JsonStringify(newProperties)),
                    !.version = Some(version)]]

\* updateEntity without the statement that chains the new snapshot to the
\* previous one.
updateEntityWritesUnchained(g, entityId, current, propertyUpdates) ==
  LET g1 == CreateEntityVersion(g, entityId, current)
      g2 == LinkEntityToVersion(g1, entityId, current.version)
  IN SetEntityProperties(g2, entityId,
       ObjectSpread(current.properties, propertyUpdates), current.version + 1)

\* updateEntity whose write statements use the entity as it is when they
\* run, not as it was read.
updateEntityWritesOfFreshRead(g, entityId, current, propertyUpdates) ==
  LET fresh == ReadEntity(g, entityId)
      g1 == CreateEntityVersion(g, entityId, fresh)
      g2 == LinkEntityToVersion(g1, entityId, fresh.version)
      g3 == IF fresh.version > 0
              THEN LinkVersionToPrevious(g2, entityId, fresh.version)
              ELSE g2
  IN SetEntityProperties(g3, entityId,
       ObjectSpread(fresh.properties, propertyUpdates), fresh.version + 1)

\* The statements of updateEntity after the read, given what the read saw.
updateEntityWrites(g, entityId, current, propertyUpdates) ==
  LET g1 == CreateEntityVersion(g, entityId, current)
      g2 == LinkEntityToVersion(g1, entityId, current.version)
      g3 == IF current.version > 0
              THEN LinkVersionToPrevious(g2, entityId, current.version)
              ELSE g2
  IN SetEntityProperties(g3, entityId,
       ObjectSpread(current.properties, propertyUpdates), current.version + 1)

\* The whole executeWrite transaction of updateEntity (defined when the
\* entity exists; the handler throws otherwise).
updateEntityTx(g, entityId, propertyUpdates) ==
  updateEntityWrites(g, entityId, ReadEntity(g, entityId), propertyUpdates)

(***************************************************************************)
(* GraphClient.getEntityHistory                                            *)
(***************************************************************************)
\* The number of paths (e)-[:PREVIOUS_VERSION*depth]->(ev): one row each.
RECURSIVE PathsTo(_, _, _, _)
PathsTo(g, entityId, depth, ev) ==
  IF depth = 1 THEN CopiesIn(<<EntityNode(entityId), ev>>, g.pv)
  ELSE LET via == {u \in DOMAIN g.versions :
                     CopiesIn(<<VersionNode(u), ev>>, g.pv) > 0}
           paths == [u \in via |->
                       PathsTo(g, entityId, depth - 1, u)
                         * CopiesIn(<<VersionNode(u), ev>>, g.pv)]
       IN SumCopies(paths, via)

RowsAtDepth(g, entityId, depth) ==
  LET reached == {v \in DOMAIN g.versions : PathsTo(g, entityId, depth, v) > 0}
  IN [v \in reached |-> PathsTo(g, entityId, depth, v)]

\* Every order in which the rows of a bag can come.
SeqsOfBag(B) ==
  {s \in [1..BagCardinality(B) -> DOMAIN B] :
     \A x \in DOMAIN B : Cardinality({i \in DOMAIN s : s[i] = x}) = B[x]}

\* WITH ev, length(path) AS depth ORDER BY depth ASC: rows of equal depth
\* come in any order.
RECURSIVE OrderedByDepth(_, _, _)
OrderedByDepth(g, entityId, depth) ==
  IF depth > Cardinality(DOMAIN g.versions) THEN {<<>>}
  ELSE {s \o t : s \in SeqsOfBag(RowsAtDepth(g, entityId, depth)),
                 t \in OrderedByDepth(g, entityId, depth + 1)}

\* LIMIT $limit
Limit(rows, limit) ==
  SubSeq(rows, 1, IF Len(rows) < limit THEN Len(rows) ELSE limit)

\* RETURN ev ORDER BY ev.version DESC: rows of equal version come in any order.
OrderedByVersionDesc(g, rows) ==
  {s \in {[i \in 1..Len(rows) |-> rows[p[i]]] : p \in Permutations(1..Len(rows))} :
     \A i, j \in 1..Len(s) :
        i < j => g.versions[s[i]].version >= g.versions[s[j]].version}

\* historyResult.records.map(...)
HistoryEntry(g, ev) ==
  [ id |-> ev,
    entityId |-> g.versions[ev].entityId,
    version |-> g.versions[ev].version,
    name |-> g.versions[ev].name,
    properties |-> JsonParse(g.versions[ev].properties) ]

\* Every `history` the history query can return.
HistoryResults(g, entityId, limit) ==
  UNION { {[i \in 1..Len(s) |-> HistoryEntry(g, s[i])] :
             s \in OrderedByVersionDesc(g, Limit(rows, limit))} :
          rows \in OrderedByDepth(g, entityId, 1) }

\* const currentEntity: Entity = {...}
CurrentEntity(g, entityId) ==
  LET e == g.entities[entityId]
  IN [ id |-> entityId, name |-> e.name, type |-> e.type,
       aliases |-> OrElse(e.aliases, <<>>),
       properties |-> JsonParse(OrElse(e.properties, EmptyJson)),
       version |-> OrElse(e.version, 0) ]

(***************************************************************************)
(* What an index answers to a query: an error with its message (a sequence *)
(* of words), or records.                                                  *)
(***************************************************************************)
NoSuchIndex == <<"no", "such", "index">>

\* String.prototype.includes
Includes(message, words) ==
  \E i \in 0..(Len(message) - Len(words)) :
    SubSeq(message, i + 1, i + Len(words)) = words

\* catch (error) { if (!error.message.includes("no such index")) throw error; }
Rethrown(answer) ==
  ~IsNull(answer.error) /\ ~Includes(answer.error[1], NoSuchIndex)
Records(answer) == IF IsNull(answer.error) THEN answer.records ELSE <<>>

(***************************************************************************)
(* GraphClient.findSimilarEntities.  Scores are in tenths: 10 is 1.0.      *)
(* `fulltext` is what the index entity_name_fulltext answers: for a word,  *)
(* the sequence of [node, score] rows of db.index.fulltext.queryNodes.     *)
(***************************************************************************)
\* name.split(/\s+/)
RECURSIVE SplitOnSpaces(_, _)
SplitOnSpaces(name, word) ==
  IF name = <<>> THEN <<word>>
  ELSE IF Head(name) = " "
    THEN IF Len(name) > 1 /\ name[2] = " "
           THEN SplitOnSpaces(Tail(name), word)
           ELSE <<word>> \o SplitOnSpaces(Tail(name), <<>>)
    ELSE SplitOnSpaces(Tail(name), Append(word, Head(name)))

\* A row of either query as a result entry.
SimilarEntity(g, id, score) ==
  [ entity |-> [id |-> id, name |-> g.entities[id].name,
                type |-> g.entities[id].type,
                aliases |-> OrElse(g.entities[id].aliases, <<>>)],
    score |-> score,
    memoryCount |-> MentionsInto(g.mentions, id) ]

\* MATCH (e:Entity) WHERE e.normalizedName = $normalizedName [AND e.type = $type]
ExactMatches(g, name, type) ==
  {e \in DOMAIN g.entities :
     /\ g.entities[e].normalizedName = normalizeEntityName(name)
     /\ (IsNull(type) \/ g.entities[e].type = type[1])}

\* results.set(id, entry): a Map keeps the position of a key it already has.
MapSet(results, entry) ==
  IF \E i \in DOMAIN results : results[i].entity.id = entry.entity.id
    THEN [i \in DOMAIN results |->
            IF results[i].entity.id = entry.entity.id THEN entry ELSE results[i]]
    ELSE Append(results, entry)

\* The loop over the fuzzy records with the fuzzy score always taken.
RECURSIVE AddFuzzyRecordsFuzzyScore(_, _, _, _)
AddFuzzyRecordsFuzzyScore(g, results, records, type) ==
  IF records = <<>> THEN results
  ELSE LET record == Head(records)
           existing == {i \in DOMAIN results :
                          results[i].entity.id = record.node}
           skip == \/ record.node \notin DOMAIN g.entities
                   \/ record.score <= 3
                   \/ (~IsNull(type) /\ g.entities[record.node].type # type[1])
                   \/ \E i \in existing : results[i].score >= record.score
       IN AddFuzzyRecordsFuzzyScore(g,
            IF skip THEN results
            ELSE MapSet(results, SimilarEntity(g, record.node, record.score)),
            Tail(records), type)

\* for (const record of fuzzyResult.records) { ... }
RECURSIVE AddFuzzyRecords(_, _, _, _)
AddFuzzyRecords(g, results, records, type) ==
  IF records = <<>> THEN results
  ELSE LET record == Head(records)
           existing == {i \in DOMAIN results :
                          results[i].entity.id = record.node}
           skip == \/ record.node \notin DOMAIN g.entities
                   \/ record.score <= 3
                   \/ (~IsNull(type) /\ g.entities[record.node].type # type[1])
                   \/ \E i \in existing : results[i].score >= record.score
           score == IF \E i \in existing : results[i].score = 10
                      THEN 10 ELSE record.score
       IN AddFuzzyRecords(g,
            IF skip THEN results
            ELSE MapSet(results, SimilarEntity(g, record.node, score)),
            Tail(records), type)

\* WHERE score > 0.3 [AND node.type = $type] ... ORDER BY score DESC LIMIT 10
RECURSIVE FuzzyRows(_, _, _)
FuzzyRows(g, records, type) ==
  IF records = <<>> THEN <<>>
  ELSE (IF /\ Head(records).node \in DOMAIN g.entities
           /\ Head(records).score > 3
           /\ (IsNull(type) \/ g.entities[Head(records).node].type = type[1])
          THEN <<Head(records)>> ELSE <<>>)
         \o FuzzyRows(g, Tail(records), type)

NoFuzzyMatch == [error |-> Null, records |-> <<>>]
FuzzyAnswer(fulltext, word) ==
  IF word \in DOMAIN fulltext THEN fulltext[word] ELSE NoFuzzyMatch

\* for (const word of words) { if (word.length < 2) continue; ... }: a query
\* that fails ends the loop.
RECURSIVE AddFuzzyWords(_, _, _, _, _)
AddFuzzyWords(g, results, words, type, fulltext) ==
  IF words = <<>> THEN results
  ELSE LET word == Head(words)
           answer == FuzzyAnswer(fulltext, word)
       IN IF Len(word) < 2 THEN AddFuzzyWords(g, results, Tail(words), type, fulltext)
          ELSE IF ~IsNull(answer.error) THEN results
          ELSE AddFuzzyWords(g,
                 AddFuzzyRecords(g, results,
                                 Limit(FuzzyRows(g, answer.records, type), 10), type),
                 Tail(words), type, fulltext)

\* The error of the first query that fails is thrown again unless it is a
\* missing index.
RECURSIVE FuzzyThrows(_, _)
FuzzyThrows(words, fulltext) ==
  IF words = <<>> THEN FALSE
  ELSE IF Len(Head(words)) < 2 THEN FuzzyThrows(Tail(words), fulltext)
  ELSE IF ~IsNull(FuzzyAnswer(fulltext, Head(words)).error)
    THEN Rethrown(FuzzyAnswer(fulltext, Head(words)))
  ELSE FuzzyThrows(Tail(words), fulltext)

\* Array.prototype.sort((a, b) => b.score - a.score): stable.
RECURSIVE SortByScore(_)
SortByScore(results) ==
  IF results = <<>> THEN <<>>
  ELSE ByValue(
         LAMBDA best :
           <<results[best]>>
             \o ByValue(SortByScore,
                        [i \in 1..(Len(results) - 1) |->
                           IF i < best THEN results[i] ELSE results[i + 1]]),
         CHOOSE i \in DOMAIN results :
           /\ \A j \in DOMAIN results : results[j].score <= results[i].score
           /\ \A j \in 1..(i - 1) : results[j].score < results[i].score)

\* Every array findSimilarEntities can return: the records of the exact
\* query come in any order.  It returns none when it throws.
findSimilarEntities(g, name, type, fulltext) ==
  LET exact == ExactMatches(g, name, type)
      orders == {o \in [1..Cardinality(exact) -> exact] :
                   \A i, j \in DOMAIN o : i # j => o[i] # o[j]}
  IN IF FuzzyThrows(SplitOnSpaces(name, <<>>), fulltext) THEN {}
     ELSE {SortByScore(
             AddFuzzyWords(g, [i \in DOMAIN o |-> SimilarEntity(g, o[i], 10)],
                           SplitOnSpaces(name, <<>>), type, fulltext)) : o \in orders}

(***************************************************************************)
(* GraphClient.mergeEntities                                               *)
(***************************************************************************)
\* The move of MENTIONS edges with CREATE in place of MERGE: one new edge
\* per edge into remove.
MoveMentionsCreate(g, keepId, removeId) ==
  IF keepId \notin DOMAIN g.entities THEN g
  ELSE LET old == {x \in DOMAIN g.mentions : x[2] = removeId}
           added == g.mentions (+) [x \in {<<y[1], keepId>> : y \in old} |->
                      SumCopies(g.mentions, {y \in old : y[1] = x[1]})]
       IN [g EXCEPT !.mentions = [x \in DOMAIN added \ old |-> added[x]]]

\* MATCH (m:Memory)-[r:MENTIONS]->(remove) MATCH (keep)
\* MERGE (m)-[:MENTIONS]->(keep) DELETE r
\* No row when keep matches nothing.  MERGE creates an edge only for a memory
\* that has none to keep yet.
MoveMentions(g, keepId, removeId) ==
  IF keepId \notin DOMAIN g.entities THEN g
  ELSE LET sources == MentioningMemories(g.mentions, removeId)
           merged == g.mentions
                       (+) SetToBag({<<m, keepId>> : m \in
                             {s \in sources : CopiesIn(<<s, keepId>>, g.mentions) = 0}})
       IN [g EXCEPT !.mentions =
             [x \in DOMAIN merged \ {<<m, removeId>> : m \in sources} |-> merged[x]]]

\* The move of typed edges with CREATE in place of apoc.merge.relationship.
MergeTypedEdgesCreate(R, moved, keepId, side) ==
  (R \ moved) \cup {IF side = "from" THEN [r EXCEPT !.from = keepId]
                                      ELSE [r EXCEPT !.to = keepId] : r \in moved}

\* apoc.merge.relationship(start, relType, {}, relProps, end) over the rows
\* `moved`, then DELETE r: an edge start-[relType]->end is created with the
\* properties of r only when none exists.
MergeTypedEdges(R, moved, keepId, side) ==
  LET Retarget(r) == IF side = "from" THEN [r EXCEPT !.from = keepId]
                                      ELSE [r EXCEPT !.to = keepId]
      Same(a, b) == a.from = b.from /\ a.type = b.type /\ a.to = b.to
      targets == {[from |-> Retarget(r).from, type |-> r.type, to |-> Retarget(r).to] :
                    r \in moved}
      absent == {t \in targets : ~\E e \in R : Same(e, t)}
      created == {Retarget(CHOOSE r \in moved : Same(Retarget(r), t)) : t \in absent}
  IN (R \ moved) \cup created

\* MATCH (remove)-[r]->(other) WHERE type(r) <> 'MENTIONS' MATCH (keep) ...
\* The outgoing edges of an Entity are its typed relationships and its
\* PREVIOUS_VERSION edge(s).
MoveOutgoing(g, keepId, removeId) ==
  IF keepId \notin DOMAIN g.entities THEN g
  ELSE LET out == {r \in g.rels : r.from = removeId}
           oldpv == {x \in DOMAIN g.pv : x[1] = EntityNode(removeId)}
           newpv == {x \in {<<EntityNode(keepId), y[2]>> : y \in oldpv} :
                       CopiesIn(x, g.pv) = 0}
           mergedpv == g.pv (+) SetToBag(newpv)
       IN [g EXCEPT
             !.rels = MergeTypedEdges(@, out, keepId, "from"),
             !.pv = [x \in DOMAIN mergedpv \ oldpv |-> mergedpv[x]]]

\* MATCH (other)-[r]->(remove) MATCH (keep) ... : every incoming edge, of
\* any type (a MENTIONS edge the first statement left behind included).
MoveIncoming(g, keepId, removeId) ==
  IF keepId \notin DOMAIN g.entities THEN g
  ELSE LET in == {r \in g.rels : r.to = removeId}
           g1 == [g EXCEPT !.rels = MergeTypedEdges(@, in, keepId, "to")]
       IN MoveMentions(g1, keepId, removeId)

\* The alias update that appends the name of remove and not its aliases.
AddAliasesNameOnly(g, keepId, newAliases) ==
  IF keepId \notin DOMAIN g.entities THEN g
  ELSE [g EXCEPT !.entities[keepId].aliases =
          Some(OrElse(@, <<>>) \o <<Head(newAliases)>>)]

\* SET keep.aliases = coalesce(keep.aliases, []) + $newAliases
AddAliases(g, keepId, newAliases) ==
  IF keepId \notin DOMAIN g.entities THEN g
  ELSE [g EXCEPT !.entities[keepId].aliases =
          Some(OrElse(@, <<>>) \o newAliases)]

\* Whether any relationship is still attached to the node.
HasRelationships(g, entityId) ==
  \/ \E x \in DOMAIN g.mentions : x[2] = entityId
  \/ \E r \in g.rels : r.from = entityId \/ r.to = entityId
  \/ \E x \in DOMAIN g.pv : x[1] = EntityNode(entityId)

\* DETACH DELETE in place of DELETE never fails.
DeleteFailsDetached(g, removeId) == FALSE

\* MATCH (remove:Entity {id}) DELETE remove.  Neo4j refuses to delete a node
\* that still has relationships, and the transaction fails.
DeleteFails(g, removeId) ==
  removeId \in DOMAIN g.entities /\ HasRelationships(g, removeId)

\* A merge that leaves the remove node in place.
DeleteEntitySkipped(g, removeId) == g

DeleteEntity(g, removeId) == [g EXCEPT !.entities = Drop(@, {removeId})]

\* The statements of mergeEntities after the lookup of `remove` (defined
\* when it exists; the handler throws otherwise), up to the final DELETE.
mergeEntitiesWrites(g, keepId, removeId) ==
  LET removeName == g.entities[removeId].name
      removeAliases == OrElse(g.entities[removeId].aliases, <<>>)
      g1 == MoveMentions(g, keepId, removeId)
      g2 == MoveOutgoing(g1, keepId, removeId)
      g3 == MoveIncoming(g2, keepId, removeId)
  IN AddAliases(g3, keepId, <<removeName>> \o removeAliases)

(***************************************************************************)
(* The calls, as actions.  `hist` records what the calls did, for the      *)
(* properties below; no handler reads it.                                  *)
(***************************************************************************)
\* The MENTIONS edges each mention of a storeMemory call created, as a bag of
\* [name, type, id]: the edges gained while the mention was processed.
RECURSIVE Resolutions(_, _, _)
Resolutions(g, m, ents) ==
  IF ents = <<>> THEN EmptyBag
  ELSE LET entity == Head(ents)
           g1 == StoreEntities(g, m, <<entity>>)
           gained == {e \in DOMAIN g1.entities :
                        MentionCount(g1.mentions, m, e) > MentionCount(g.mentions, m, e)}
       IN [x \in {[name |-> entity.name, type |-> entity.type, id |-> e] : e \in gained}
             |-> MentionCount(g1.mentions, m, x.id) - MentionCount(g.mentions, m, x.id)]
          (+) Resolutions(g1, m, Tail(ents))

StoreMemory(mtype, status, ents, relationships, entityResolutions) ==
  /\ Cardinality(DOMAIN memories) < MaxMemories
  /\ UNCHANGED inflight
  /\ LET m == NewMemoryId
         g == storeMemoryTx(Graph, m, mtype, status, ents,
                            relationships, entityResolutions)
     IN /\ g.nextEntity - 1 <= MaxEntities
        /\ Commit(g)
        /\ outcome' = Returned("storeMemory", <<m>>, <<>>)
        /\ hist' = [hist EXCEPT
             !.pre = Graph,
             !.mentioned = @ (+) Resolutions(CreateMemory(Graph, m, mtype, status), m, ents),
             !.updates = [e \in DOMAIN g.entities |->
                            IF e \in DOMAIN @ THEN @[e] ELSE <<>>]]

\* The entities passed on as they were extracted.
ApplyResolutionsIgnored(ents, entityResolutions) == ents

\* extracted.entities.map((e) => { const resolvedId =
\* entityResolutions?.get(e.name); return resolvedId ? {...e, resolvedId} : e })
RECURSIVE ApplyResolutions(_, _)
ApplyResolutions(ents, entityResolutions) ==
  IF ents = <<>> THEN <<>>
  ELSE <<[Head(ents) EXCEPT
            !.resolvedId = IF IsNull(EntityResolutionsGet(entityResolutions, Head(ents).name))
                             THEN @
                             ELSE EntityResolutionsGet(entityResolutions, Head(ents).name)]>>
       \o ApplyResolutions(Tail(ents), entityResolutions)

\* MemorySystem.storeMemory: the graph write, then the hypothetical
\* questions of the extraction in a transaction of their own.
SystemStoreMemory(mtype, ents, relationships, entityResolutions, questionCount) ==
  /\ Cardinality(DOMAIN memories) < MaxMemories
  /\ BagCardinality(questions) + questionCount <= MaxQuestions
  /\ UNCHANGED inflight
  /\ LET m == NewMemoryId
         resolvedEntities == ApplyResolutions(ents, entityResolutions)
         g == storeMemoryTx(Graph, m, mtype, Null, resolvedEntities,
                            relationships, entityResolutions)
     IN /\ g.nextEntity - 1 <= MaxEntities
        /\ Commit(IF questionCount > 0
                    THEN storeHypotheticalQuestionsTx(g, m, questionCount)
                    ELSE g)
        /\ outcome' = Returned("storeMemory", <<m>>, m)
        /\ hist' = [hist EXCEPT
             !.pre = Graph,
             !.mentioned = @ (+) Resolutions(CreateMemory(Graph, m, mtype, Null), m,
                                             resolvedEntities),
             !.updates = [e \in DOMAIN g.entities |->
                            IF e \in DOMAIN @ THEN @[e] ELSE <<>>],
             !.call = Some([memory |-> m, entities |-> ents,
                            relationships |-> relationships,
                            entityResolutions |-> entityResolutions])]

\* if (result.records.length === 0) return; in place of the throw.
NotFoundIgnored(op, args) == Returned(op, args, <<>>)

\* if (result.records.length === 0) throw new Error(`Entity ${entityId} not found`)
NotFound(op, args) == Threw(op, args, "not found")

UpdateEntity(entityId, propertyUpdates) ==
  /\ UNCHANGED inflight
  /\ IF entityId \notin DOMAIN entities
       THEN /\ Rollback
            /\ outcome' = NotFound("updateEntity", <<entityId, propertyUpdates>>)
            /\ hist' = [hist EXCEPT !.pre = Graph]
       ELSE /\ Cardinality(DOMAIN versions) < MaxUpdates
            /\ Commit(updateEntityTx(Graph, entityId, propertyUpdates))
            /\ outcome' = Returned("updateEntity", <<entityId, propertyUpdates>>, <<>>)
            /\ hist' = [hist EXCEPT
                  !.pre = Graph,
                  !.updates[entityId] =
                     Append(@, [name |-> entities[entityId].name,
                                properties |-> JsonParse(OrElse(entities[entityId].properties,
                                                                EmptyJson))])]

GetEntityHistory(entityId, limit) ==
  /\ UNCHANGED <<graph, inflight>>
  /\ hist' = [hist EXCEPT !.pre = Graph]
  /\ IF entityId \notin DOMAIN entities
       THEN outcome' = NotFound("getEntityHistory", <<entityId, limit>>)
       ELSE \E h \in HistoryResults(Graph, entityId, limit) :
              outcome' = Returned("getEntityHistory", <<entityId, limit>>,
                           [current |-> CurrentEntity(Graph, entityId),
                            history |-> h])

MergeEntities(keepId, removeId) ==
  /\ UNCHANGED inflight
  /\ IF removeId \notin DOMAIN entities
       THEN /\ Rollback
            /\ outcome' = Threw("mergeEntities", <<keepId, removeId>>, "not found")
            /\ hist' = [hist EXCEPT !.pre = Graph]
       ELSE LET g == mergeEntitiesWrites(Graph, keepId, removeId)
            IN IF DeleteFails(g, removeId)
                 THEN /\ Rollback
                      /\ outcome' = Threw("mergeEntities", <<keepId, removeId>>,
                                          "still has relationships")
                      /\ hist' = [hist EXCEPT !.pre = Graph]
                 ELSE /\ Commit(DeleteEntity(g, removeId))
                      /\ outcome' = Returned("mergeEntities", <<keepId, removeId>>, <<>>)
                      /\ hist' = [hist EXCEPT
                           !.pre = Graph,
                           !.absorbed = Put(@, removeId,
                              [into |-> keepId, name |-> entities[removeId].name]),
                           !.updates = Drop(@, {removeId})]

(***************************************************************************)
(* updateEntity by concurrent callers.  The transaction reads the entity   *)
(* (read committed: the read takes no lock), keeps what it read in local   *)
(* variables, and then runs its write statements, which commit together.   *)
(***************************************************************************)
UpdateEntityRead(session, entityId, propertyUpdates) ==
  /\ IsNull(inflight[session])
  /\ UNCHANGED graph
  /\ IF entityId \notin DOMAIN entities
       THEN /\ outcome' = Threw("updateEntity", <<entityId>>, "not found")
            /\ hist' = [hist EXCEPT !.pre = Graph]
            /\ UNCHANGED inflight
       ELSE /\ inflight' = [inflight EXCEPT ![session] =
                  Some([entityId |-> entityId,
                        current |-> ReadEntity(Graph, entityId),
                        propertyUpdates |-> propertyUpdates])]
            /\ UNCHANGED <<outcome, hist>>

UpdateEntityWrite(session) ==
  /\ ~IsNull(inflight[session])
  /\ Cardinality(DOMAIN versions) < MaxUpdates
  /\ LET call == inflight[session][1]
     IN /\ Commit(updateEntityWrites(Graph, call.entityId, call.current,
                                     call.propertyUpdates))
        /\ outcome' = Returned("updateEntity", <<call.entityId>>, <<>>)
        /\ hist' = [hist EXCEPT
             !.pre = Graph,
             !.finished[session] = Some(call),
             !.updates[call.entityId] =
                Append(@, [name |-> entities[call.entityId].name,
                           properties |-> JsonParse(OrElse(
                              entities[call.entityId].properties, EmptyJson))])]
  /\ inflight' = [inflight EXCEPT ![session] = Null]

(***************************************************************************)
(* MemorySystem.remember                                                   *)
(***************************************************************************)
\* for (const update of extracted.propertyUpdates) { ... }: every graph the
\* loop can leave, each updateEntity being a transaction of its own.
RECURSIVE HandlePropertyUpdates(_, _, _)
HandlePropertyUpdates(g, propertyUpdates, fulltext) ==
  IF propertyUpdates = <<>> THEN {g}
  ELSE LET update == Head(propertyUpdates)
           after == {IF Len(candidates) > 0 /\ candidates[1].score = 10
                       THEN updateEntityTx(g, candidates[1].entity.id, update.updates)
                       ELSE g :
                     candidates \in findSimilarEntities(g, update.entityName, Null, fulltext)}
       IN UNION {HandlePropertyUpdates(g1, Tail(propertyUpdates), fulltext) : g1 \in after}

\* The graphs the loop leaves when findSimilarEntities throws in it: the
\* updates made before the throw stay.
RECURSIVE HandlePropertyUpdatesThrows(_, _, _)
HandlePropertyUpdatesThrows(g, propertyUpdates, fulltext) ==
  IF propertyUpdates = <<>> THEN {}
  ELSE IF FuzzyThrows(SplitOnSpaces(Head(propertyUpdates).entityName, <<>>), fulltext)
    THEN {g}
  ELSE UNION {HandlePropertyUpdatesThrows(g1, Tail(propertyUpdates), fulltext) :
                g1 \in HandlePropertyUpdates(g, <<Head(propertyUpdates)>>, fulltext)}

\* How step 3 of remember can end: with the loop done, or thrown out of.
PropertyUpdateRuns(g, propertyUpdates, fulltext) ==
  {[graph |-> g1, thrown |-> FALSE] :
     g1 \in HandlePropertyUpdates(g, propertyUpdates, fulltext)}
  \cup {[graph |-> g1, thrown |-> TRUE] :
          g1 \in HandlePropertyUpdatesThrows(g, propertyUpdates, fulltext)}

\* The snapshots the property updates of one call took, appended to the
\* record of each updated entity.
RecordUpdates(updates, before, after) ==
  [e \in DOMAIN after.entities |->
     IF e \notin DOMAIN before.entities THEN <<>>
     ELSE IF after.entities[e].version = before.entities[e].version THEN updates[e]
     ELSE Append(updates[e],
            [name |-> before.entities[e].name,
             properties |-> JsonParse(OrElse(before.entities[e].properties, EmptyJson))])]

\* `failure` is the call to OpenAI that throws, if any: "embedding" (of the
\* text), "question embedding" (of a hypothetical question) or "none".
Remember(extracted, fulltext, failure) ==
  /\ Cardinality(DOMAIN memories) < MaxMemories
  /\ UNCHANGED inflight
  /\ IF failure = "embedding"
       THEN /\ Rollback
            /\ outcome' = Threw("remember", <<>>, "OpenAI embedding failed")
            /\ hist' = [hist EXCEPT !.pre = Graph]
       ELSE \E run \in PropertyUpdateRuns(Graph, extracted.propertyUpdates, fulltext) :
              LET g1 == run.graph
                  m == NewMemoryId
                  status == IF extracted.type = "todo" THEN Some("open") ELSE Null
                  g2 == storeMemoryTx(g1, m, extracted.type, status, extracted.entities,
                                      extracted.relationships, NoResolutions)
                  g3 == storeHypotheticalQuestionsTx(g2, m, extracted.hypotheticalQuestions)
                  thrown == extracted.hypotheticalQuestions > 0
                              /\ failure = "question embedding"
              IN IF run.thrown
                   THEN /\ Cardinality(DOMAIN g1.versions) <= MaxUpdates
                        /\ Commit(g1)
                        /\ outcome' = Threw("remember", <<>>, "fulltext query failed")
                        /\ hist' = [hist EXCEPT
                             !.pre = Graph,
                             !.updates = RecordUpdates(@, Graph, g1),
                             !.call = Some([propertyUpdates |-> extracted.propertyUpdates])]
                   ELSE /\ g2.nextEntity - 1 <= MaxEntities
                        /\ Cardinality(DOMAIN g2.versions) <= MaxUpdates
                        /\ Commit(IF thrown THEN g2 ELSE g3)
                        /\ outcome' = IF thrown
                             THEN Threw("remember", <<m>>, "OpenAI embedding failed")
                             ELSE Returned("remember", <<m>>, m)
                        /\ hist' = [hist EXCEPT
                             !.pre = Graph,
                             !.mentioned = @ (+) Resolutions(
                                CreateMemory(g1, m, extracted.type, status), m,
                                extracted.entities),
                             !.updates = RecordUpdates(@, Graph, g2),
                             !.failed = IF thrown THEN @ \cup {m} ELSE @,
                             !.call = Some([propertyUpdates |-> extracted.propertyUpdates])]

(***************************************************************************)
(* GraphClient.updateTodoStatus, GraphClient.getAllMemories and            *)
(* MemorySystem.listTodos.  `now` is what new Date() reads: a clock that   *)
(* never runs backwards.                                                   *)
(***************************************************************************)
\* nodeToMemory(node): the Memory a node is returned as.
nodeToMemory(g, m) ==
  [ id |-> m, type |-> g.memories[m].type, timestamp |-> g.memories[m].timestamp,
    status |-> g.memories[m].status,
    resolutionSummary |-> g.memories[m].resolutionSummary,
    resolvedAt |-> g.memories[m].resolvedAt ]

\* The update with the memory stamped anew.
SetStatusAndTimestamp(g, memoryId, status, resolutionSummary, now) ==
  IF memoryId \notin DOMAIN g.memories THEN g
  ELSE [g EXCEPT !.memories[memoryId] =
          [@ EXCEPT !.status = Some(status),
                    !.timestamp = now,
                    !.resolutionSummary =
                      IF IsNull(resolutionSummary) THEN @ ELSE resolutionSummary,
                    !.resolvedAt = IF status = "done" THEN Some(now) ELSE @]]

\* MATCH (m:Memory {id: $memoryId}) SET m.status = $status
\*   [, m.resolutionSummary = $resolutionSummary]   when one was given
\*   [, m.resolvedAt = datetime($resolvedAt)]       when status is "done"
\* A memory that is not found matches no row and nothing is set.
SetStatus(g, memoryId, status, resolutionSummary, now) ==
  IF memoryId \notin DOMAIN g.memories THEN g
  ELSE [g EXCEPT !.memories[memoryId] =
          [@ EXCEPT !.status = Some(status),
                    !.resolutionSummary =
                      IF IsNull(resolutionSummary) THEN @ ELSE resolutionSummary,
                    !.resolvedAt = IF status = "done" THEN Some(now) ELSE @]]

updateTodoStatusTx(g, memoryId, status, resolutionSummary, now) ==
  SetStatus(g, memoryId, status, resolutionSummary, now)

\* ORDER BY m.timestamp, ascending or descending.  Rows of one timestamp
\* come in any order; no two memories of the model have one timestamp.
RECURSIVE OrderByTimestamp(_, _, _)
OrderByTimestamp(g, S, descending) ==
  IF S = {} THEN <<>>
  ELSE LET first == CHOOSE m \in S : \A n \in S :
                      IF descending
                        THEN g.memories[n].timestamp <= g.memories[m].timestamp
                        ELSE g.memories[m].timestamp <= g.memories[n].timestamp
       IN <<nodeToMemory(g, first)>> \o OrderByTimestamp(g, S \ {first}, descending)

\* MATCH (m:Memory) RETURN m ORDER BY m.timestamp ASC
getAllMemories(g) == OrderByTimestamp(g, DOMAIN g.memories, FALSE)

\* m.type === "todo" && m.status !== "done"
IsOpenTodo(m) == m.type = "todo" /\ m.status # Some("done")

\* allMemories.filter((m) => m.type === "todo" && m.status !== "done")
RECURSIVE FilterOpenTodos(_)
FilterOpenTodos(allMemories) ==
  IF allMemories = <<>> THEN <<>>
  ELSE (IF IsOpenTodo(Head(allMemories)) THEN <<Head(allMemories)>> ELSE <<>>)
         \o FilterOpenTodos(Tail(allMemories))

listTodos(g) == FilterOpenTodos(getAllMemories(g))

\* The latest time the clock was read for a stamp that is still in the graph.
LatestStamp ==
  LET stamps == {memories[m].resolvedAt[1] :
                   m \in {n \in DOMAIN memories : ~IsNull(memories[n].resolvedAt)}}
  IN IF stamps = {} THEN 0 ELSE CHOOSE t \in stamps : \A u \in stamps : u <= t

UpdateTodoStatus(memoryId, status, resolutionSummary, now) ==
  /\ now >= LatestStamp
  /\ UNCHANGED inflight
  /\ Commit(updateTodoStatusTx(Graph, memoryId, status, resolutionSummary, now))
  /\ outcome' = Returned("updateTodoStatus", <<memoryId, status>>, <<>>)
  /\ hist' = [hist EXCEPT
       !.pre = Graph,
       !.done = IF memoryId \in DOMAIN memories /\ status = "done"
                  THEN @ \cup {memoryId} ELSE @]

ListTodos ==
  /\ UNCHANGED <<graph, inflight>>
  /\ outcome' = Returned("listTodos", <<>>, listTodos(Graph))
  /\ hist' = [hist EXCEPT !.pre = Graph]

(***************************************************************************)
(* GraphClient.searchByVector and GraphClient.getRecentMemories.  What a   *)
(* vector index answers to db.index.vector.queryNodes is an input: an      *)
(* error with its message (a sequence of words), or the records in the     *)
(* order of the query's ORDER BY score DESC.  A record of the question     *)
(* index names the Memory its question points to, if any.                  *)
(***************************************************************************)
\* memoryResults.get(id)
MapGet(results, id) == {i \in DOMAIN results : results[i].memory.id = id}

\* memoryResults.set(id, entry): a Map keeps the position of a key it has.
MemoryMapSet(results, entry) ==
  IF MapGet(results, entry.memory.id) # {}
    THEN [i \in DOMAIN results |->
            IF results[i].memory.id = entry.memory.id THEN entry ELSE results[i]]
    ELSE Append(results, entry)

\* for (const record of memoryResult.records) memoryResults.set(...)
RECURSIVE AddMemoryRecords(_, _, _)
AddMemoryRecords(g, results, records) ==
  IF records = <<>> THEN results
  ELSE AddMemoryRecords(g,
         MemoryMapSet(results, [memory |-> nodeToMemory(g, Head(records).node),
                                score |-> Head(records).score]),
         Tail(records))

\* The loop over the question records with a first hit that is never replaced.
RECURSIVE AddQuestionRecordsFirstWins(_, _, _)
AddQuestionRecordsFirstWins(g, results, records) ==
  IF records = <<>> THEN results
  ELSE LET record == Head(records)
           skip == IF IsNull(record.node) THEN TRUE
                   ELSE MapGet(results, record.node[1]) # {}
       IN AddQuestionRecordsFirstWins(g,
            IF skip THEN results
            ELSE MemoryMapSet(results, [memory |-> nodeToMemory(g, record.node[1]),
                                        score |-> record.score]),
            Tail(records))

\* MATCH (node)-[:FOR_MEMORY]->(m:Memory) drops a question that has no edge;
\* if (!existing || existing.score < score) memoryResults.set(...)
RECURSIVE AddQuestionRecords(_, _, _)
AddQuestionRecords(g, results, records) ==
  IF records = <<>> THEN results
  ELSE LET record == Head(records)
           skip == IF IsNull(record.node) THEN TRUE
                   ELSE \E i \in MapGet(results, record.node[1]) :
                          ~(results[i].score < record.score)
       IN AddQuestionRecords(g,
            IF skip THEN results
            ELSE MemoryMapSet(results, [memory |-> nodeToMemory(g, record.node[1]),
                                        score |-> record.score]),
            Tail(records))

\* The fallback query with ORDER BY m.timestamp ascending.
getRecentMemoriesOldestFirst(g, limit) ==
  Limit(OrderByTimestamp(g, DOMAIN g.memories, FALSE), limit)

\* MATCH (m:Memory) RETURN m ORDER BY m.timestamp DESC LIMIT $limit
getRecentMemories(g, limit) ==
  Limit(OrderByTimestamp(g, DOMAIN g.memories, TRUE), limit)

\* .map((item) => item.memory)
Memories(results) == [i \in DOMAIN results |-> results[i].memory]

\* What the call does: it throws `error`, or returns `value`.
searchByVector(g, memoryAnswer, questionAnswer, limit) ==
  IF Rethrown(memoryAnswer) THEN [error |-> memoryAnswer.error, value |-> <<>>]
  ELSE IF Rethrown(questionAnswer) THEN [error |-> questionAnswer.error, value |-> <<>>]
  ELSE LET memoryResults ==
             AddQuestionRecords(g,
               AddMemoryRecords(g, <<>>, Records(memoryAnswer)),
               Records(questionAnswer))
       IN [ error |-> Null,
            value |-> IF Len(memoryResults) = 0
                        THEN getRecentMemories(g, limit)
                        ELSE Memories(Limit(SortByScore(memoryResults), limit)) ]

(***************************************************************************)
(* GraphClient.hybridSearch.  A score is a whole number of 1/ScoreUnit:    *)
(* ScoreUnit is 1.0.  Every seed count the model reaches divides           *)
(* ScoreUnit, and so does 20, so that no score is rounded.  `tieBreak` is  *)
(* the order in which the database returns related memories of one         *)
(* sharedEntities.                                                         *)
(***************************************************************************)
ScoreUnit == 420

\* 1.0 - i / vectorResults.length
VectorScore(i, n) == ScoreUnit - (ScoreUnit * i) \div n

\* The graph score with the cap at 10 shared entities.
GraphScoreCapped(sharedCount) ==
  ((IF sharedCount > 10 THEN 10 ELSE sharedCount) * ScoreUnit) \div 20

\* (sharedCount / 10) * 0.5
GraphScore(sharedCount) == (sharedCount * ScoreUnit) \div 20

\* The rows of MATCH (m {id})-[:MENTIONS]->(e) MATCH (e)<-[:MENTIONS]-(related)
\* for one related memory, as a bag of the MENTIONS edges of m: one row per
\* pair of MENTIONS edges that meet in an entity.
SharedRows(g, memoryId, related) ==
  [x \in {y \in DOMAIN g.mentions :
            y[1] = memoryId /\ MentionCount(g.mentions, related, y[2]) > 0}
     |-> g.mentions[x] * MentionCount(g.mentions, related, x[2])]

\* count(e)
SharedEntities(g, memoryId, related) == BagCardinality(SharedRows(g, memoryId, related))

Position(s, x) == CHOOSE i \in DOMAIN s : s[i] = x

\* ORDER BY sharedEntities DESC, over the set of rows.
RECURSIVE OrderBySharedEntities(_, _)
OrderBySharedEntities(rows, tieBreak) ==
  IF rows = {} THEN <<>>
  ELSE ByValue(
         LAMBDA first :
           <<first>> \o ByValue(LAMBDA rest : OrderBySharedEntities(rest, tieBreak),
                                rows \ {first}),
         CHOOSE r \in rows : \A q \in rows :
           \/ q.sharedEntities < r.sharedEntities
           \/ /\ q.sharedEntities = r.sharedEntities
              /\ Position(tieBreak, r.related) <= Position(tieBreak, q.related))

\* WHERE related.id <> $memoryId RETURN DISTINCT related, count(e) as
\* sharedEntities ORDER BY sharedEntities DESC LIMIT 5
RelatedMemories(g, memoryId, tieBreak) ==
  ByValue(
    LAMBDA rows :
      Limit(OrderBySharedEntities({r \in rows : r.sharedEntities > 0}, tieBreak), 5),
    {[related |-> r, sharedEntities |-> SharedEntities(g, memoryId, r)] :
       r \in DOMAIN g.memories \ {memoryId}})

\* if (!expandedResults.has(relatedMemory.id)) expandedResults.set(...)
RECURSIVE AddRelated(_, _, _)
AddRelated(g, expandedResults, records) ==
  IF records = <<>> THEN expandedResults
  ELSE ByValue(
         LAMBDA next : AddRelated(g, next, Tail(records)),
         IF MapGet(expandedResults, Head(records).related) # {} THEN expandedResults
         ELSE MemoryMapSet(expandedResults,
                [memory |-> nodeToMemory(g, Head(records).related),
                 score |-> GraphScore(Head(records).sharedEntities)]))

\* The seed is added only when the map does not have it yet.
AddSeedIfAbsent(expandedResults, entry) ==
  IF MapGet(expandedResults, entry.memory.id) # {} THEN expandedResults
  ELSE MemoryMapSet(expandedResults, entry)

\* expandedResults.set(memory.id, { memory, score: vectorScore })
AddSeed(expandedResults, entry) == MemoryMapSet(expandedResults, entry)

\* for (let i = 0; i < vectorResults.length; i++) { ... }, from seed i on.
RECURSIVE ExpandSeeds(_, _, _, _, _)
ExpandSeeds(g, expandedResults, vectorResults, i, tieBreak) ==
  IF i >= Len(vectorResults) THEN expandedResults
  ELSE LET memory == vectorResults[i + 1]
           vectorScore == VectorScore(i, Len(vectorResults))
       IN ByValue(
            LAMBDA next : ExpandSeeds(g, next, vectorResults, i + 1, tieBreak),
            ByValue(
              LAMBDA records :
                AddRelated(g,
                  AddSeed(expandedResults, [memory |-> memory, score |-> vectorScore]),
                  records),
              RelatedMemories(g, memory.id, tieBreak)))

\* The result without .slice(0, limit).
RankExpandedUnsliced(expandedResults, limit) == SortByScore(expandedResults)

\* Array.from(expandedResults.values()).sort(...).slice(0, limit)
RankExpanded(expandedResults, limit) == Limit(SortByScore(expandedResults), limit)

hybridSearch(g, memoryAnswer, questionAnswer, limit, tieBreak) ==
  ByValue(
    LAMBDA found :
      IF ~IsNull(found.error) THEN found
      ELSE [ error |-> Null,
             value |-> ByValue(
                         LAMBDA expandedResults : RankExpanded(expandedResults, limit),
                         ExpandSeeds(g, <<>>, found.value, 0, tieBreak)) ],
    searchByVector(g, memoryAnswer, questionAnswer, limit))

(***************************************************************************)
(* MemorySystem.prepareMemory.  The verdicts of the disambiguator are      *)
(* inputs: disambiguateEntity returns whatever JSON the model wrote.       *)
(***************************************************************************)
\* if (candidates.length === 1 && candidates[0]?.score === 1.0) continue;
\* if (candidates.length > 1) { const result = await disambiguateEntity(...) }
Consulted(candidates) ==
  /\ ~(Len(candidates) = 1 /\ candidates[1].score = 10)
  /\ Len(candidates) > 1

\* The verdict handling with every selectedIndex > 0 resolved automatically.
VerdictEntriesAnyConfidence(entity, candidates, result) ==
  IF result.selectedIndex > 0
    THEN << [extractedEntity |-> entity, candidates |-> candidates,
             autoResolved |-> Some([index |-> result.selectedIndex - 1])] >>
  ELSE IF result.selectedIndex = -1 \/ result.confidence # "high"
    THEN << [extractedEntity |-> entity, candidates |-> candidates,
             autoResolved |-> Null] >>
  ELSE <<>>

\* if (result.selectedIndex > 0 && result.confidence === "high") { push }
\* else if (result.selectedIndex === -1 || result.confidence !== "high") { push }
VerdictEntries(entity, candidates, result) ==
  IF result.selectedIndex > 0 /\ result.confidence = "high"
    THEN << [extractedEntity |-> entity, candidates |-> candidates,
             autoResolved |-> Some([index |-> result.selectedIndex - 1])] >>
  ELSE IF result.selectedIndex = -1 \/ result.confidence # "high"
    THEN << [extractedEntity |-> entity, candidates |-> candidates,
             autoResolved |-> Null] >>
  ELSE <<>>

\* for (const entity of extracted.entities) { ... }: every pair of the
\* disambiguations and of the calls made to the disambiguator, for the
\* entities from position i on.
RECURSIVE PrepareEntities(_, _, _, _, _)
PrepareEntities(g, ents, i, fulltext, verdicts) ==
  IF i > Len(ents) THEN { [disambiguations |-> <<>>, asked |-> <<>>] }
  ELSE LET entity == ents[i]
           rest == PrepareEntities(g, ents, i + 1, fulltext, verdicts)
       IN { [disambiguations |->
               (IF Consulted(candidates)
                  THEN VerdictEntries(entity, candidates, verdicts[i])
                  ELSE <<>>) \o r.disambiguations,
             asked |->
               (IF Consulted(candidates)
                  THEN << [entity |-> entity, candidates |-> candidates,
                           result |-> verdicts[i]] >>
                  ELSE <<>>) \o r.asked] :
            candidates \in findSimilarEntities(g, entity.name, Some(entity.type), fulltext),
            r \in rest }

\* findSimilarEntities has no catch in prepareMemory: its error is the
\* error of prepareMemory.
PrepareThrows(g, ents, fulltext) ==
  \E i \in DOMAIN ents :
    findSimilarEntities(g, ents[i].name, Some(ents[i].type), fulltext) = {}

prepareMemory(g, ents, fulltext, verdicts) ==
  IF PrepareThrows(g, ents, fulltext) THEN {}
  ELSE PrepareEntities(g, ents, 1, fulltext, verdicts)

(***************************************************************************)
(* The search handlers as actions.  They read the graph and write nothing. *)
(***************************************************************************)
FindSimilarEntities(name, type, fulltext) ==
  /\ hist.searches < MaxSearches
  /\ UNCHANGED <<graph, inflight>>
  /\ LET arrays == findSimilarEntities(Graph, name, type, fulltext)
         args == <<name, type, fulltext>>
     IN IF arrays = {}
          THEN outcome' = Threw("findSimilarEntities", args, "fulltext query failed")
          ELSE \E value \in arrays :
                 outcome' = Returned("findSimilarEntities", args, value)
  /\ hist' = [hist EXCEPT !.pre = Graph, !.searches = @ + 1]

PrepareMemory(ents, fulltext, verdicts) ==
  /\ hist.searches < MaxSearches
  /\ UNCHANGED <<graph, inflight>>
  /\ LET results == prepareMemory(Graph, ents, fulltext, verdicts)
     IN IF results = {}
          THEN outcome' = Threw("prepareMemory", <<ents, fulltext, <<>>>>,
                                "fulltext query failed")
          ELSE \E r \in results :
                 outcome' = Returned("prepareMemory", <<ents, fulltext, r.asked>>,
                                     r.disambiguations)
  /\ hist' = [hist EXCEPT !.pre = Graph, !.searches = @ + 1]

StoreHypotheticalQuestions(memoryId, questionCount) ==
  /\ BagCardinality(questions) + questionCount <= MaxQuestions
  /\ UNCHANGED inflight
  /\ Commit(storeHypotheticalQuestionsTx(Graph, memoryId, questionCount))
  /\ outcome' = Returned("storeHypotheticalQuestions", <<memoryId, questionCount>>, <<>>)
  /\ hist' = [hist EXCEPT !.pre = Graph]

SearchByVector(memoryAnswer, questionAnswer, limit) ==
  /\ UNCHANGED <<graph, inflight>>
  /\ LET result == searchByVector(Graph, memoryAnswer, questionAnswer, limit)
         args == <<memoryAnswer, questionAnswer, limit>>
     IN outcome' = IF IsNull(result.error)
                     THEN Returned("searchByVector", args, result.value)
                     ELSE Threw("searchByVector", args, result.error[1])
  /\ hist' = [hist EXCEPT !.pre = Graph]

HybridSearch(memoryAnswer, questionAnswer, limit, tieBreak) ==
  /\ hist.searches < MaxSearches
  /\ UNCHANGED <<graph, inflight>>
  /\ LET args == <<memoryAnswer, questionAnswer, limit>>
     IN outcome' = ByValue(
          LAMBDA result :
            IF IsNull(result.error)
              THEN Returned("hybridSearch", args, result.value)
              ELSE Threw("hybridSearch", args, result.error[1]),
          hybridSearch(Graph, memoryAnswer, questionAnswer, limit, tieBreak))
  /\ hist' = [hist EXCEPT !.pre = Graph, !.searches = @ + 1]

(***************************************************************************)
(* The inputs of the specification.                                        *)
(***************************************************************************)
\* Entity ids a caller can pass: every id ever issued, and 0, an id that was
\* never issued.
EntityIdInputs == 0..MaxEntities
Limits == 1..MaxUpdates

EntityRefs ==
  {[name |-> n, type |-> "person", resolvedId |-> Null] : n \in Names}
  \cup {[name |-> <<"A", " ", "l">>, type |-> "place", resolvedId |-> Null]}

MentionLists ==
  {<<a>> : a \in EntityRefs} \cup {<<a, b>> : a \in EntityRefs, b \in EntityRefs}

\* No relationship, or one from the first to the last mentioned name.
RelationshipLists(ents) ==
  {<<>>} \cup
  {<<[from |-> ents[1].name, to |-> ents[Len(ents)].name, type |-> t,
      context |-> Null]>> : t \in RelTypes}

Init ==
  /\ memories = [m \in {} |-> 0]
  /\ entities = [e \in {} |-> 0]
  /\ mentions = EmptyBag
  /\ rels = {}
  /\ versions = [v \in {} |-> 0]
  /\ pv = EmptyBag
  /\ questions = EmptyBag
  /\ nextEntity = 1
  /\ inflight = [p \in Sessions |-> Null]
  /\ outcome = Returned("constructor", <<>>, <<>>)
  /\ hist = [pre |-> [memories |-> [m \in {} |-> 0], entities |-> [e \in {} |-> 0],
                      mentions |-> EmptyBag, rels |-> {},
                      versions |-> [v \in {} |-> 0], pv |-> EmptyBag,
                      questions |-> EmptyBag, nextEntity |-> 1],
             mentioned |-> EmptyBag, updates |-> [e \in {} |-> <<>>],
             absorbed |-> [e \in {} |-> 0],
             failed |-> {},
             finished |-> [p \in Sessions |-> Null],
             done |-> {},
             searches |-> 0,
             call |-> Null]

(***************************************************************************)
(* Spec: the graph under storeMemory and mergeEntities, with memories that *)
(* mention one or two names and relate them.                               *)
(***************************************************************************)
Next ==
  \/ \E ents \in MentionLists : \E relationships \in RelationshipLists(ents) :
       StoreMemory("episodic", Null, ents, relationships, NoResolutions)
  \/ \E keepId \in EntityIdInputs : \E removeId \in EntityIdInputs :
       MergeEntities(keepId, removeId)

Spec == Init /\ [][Next]_vars

(***************************************************************************)
(* SpecVersions: the version history under storeMemory, updateEntity,      *)
(* getEntityHistory and mergeEntities, with memories that mention one name.*)
(***************************************************************************)
NextVersions ==
  \/ \E entity \in EntityRefs :
       StoreMemory("episodic", Null, <<entity>>, <<>>, NoResolutions)
  \/ \E entityId \in EntityIdInputs : \E propertyUpdates \in PropertyUpdates :
       UpdateEntity(entityId, propertyUpdates)
  \/ \E entityId \in EntityIdInputs : \E limit \in Limits :
       GetEntityHistory(entityId, limit)
  \/ \E keepId \in EntityIdInputs : \E removeId \in EntityIdInputs :
       MergeEntities(keepId, removeId)

SpecVersions == Init /\ [][NextVersions]_vars

(***************************************************************************)
(* SpecConcurrent: two callers of updateEntity whose transactions overlap, *)
(* on entities made by storeMemory.                                        *)
(***************************************************************************)
NextConcurrent ==
  \/ \E entity \in EntityRefs :
       StoreMemory("episodic", Null, <<entity>>, <<>>, NoResolutions)
  \/ \E session \in Sessions : \E entityId \in EntityIdInputs :
       \E propertyUpdates \in PropertyUpdates :
         UpdateEntityRead(session, entityId, propertyUpdates)
  \/ \E session \in Sessions : UpdateEntityWrite(session)

SpecConcurrent == Init /\ [][NextConcurrent]_vars

(***************************************************************************)
(* SpecRemember: the graph under remember, with extractions that mention   *)
(* one name and may carry a property update and a hypothetical question.   *)
(***************************************************************************)
Extractions ==
  [ type : MemoryTypes,
    entities : {<<a>> : a \in EntityRefs},
    relationships : {<<>>},
    hypotheticalQuestions : {0, 1},
    propertyUpdates :
      {<<>>} \cup {<<[entityName |-> n, updates |-> u]>> :
                     n \in Names, u \in PropertyUpdates} ]

\* The index has no answer to give for a word of fewer than two letters.
NoFulltext == [w \in {} |-> <<>>]

Failures == {"none", "embedding", "question embedding"}

NextRemember ==
  \E extracted \in Extractions : \E failure \in Failures :
    Remember(extracted, NoFulltext, failure)

SpecRemember == Init /\ [][NextRemember]_vars

(***************************************************************************)
(* SpecTodos: memories, todos among them, under storeMemory,               *)
(* updateTodoStatus and listTodos.                                         *)
(***************************************************************************)
Times == 1..MaxClock
TodoStatuses == {"open", "done"}
ResolutionSummaries == {Null, Some("fixed")}
MemoryIdInputs == 0..MaxMemories

NextTodos ==
  \/ \E mtype \in MemoryTypes :
       StoreMemory(mtype, IF mtype = "todo" THEN Some("open") ELSE Null,
                   <<>>, <<>>, NoResolutions)
  \/ \E memoryId \in MemoryIdInputs : \E status \in TodoStatuses :
       \E resolutionSummary \in ResolutionSummaries : \E now \in Times :
         UpdateTodoStatus(memoryId, status, resolutionSummary, now)
  \/ ListTodos

SpecTodos == Init /\ [][NextTodos]_vars

(***************************************************************************)
(* SpecSearch: searchByVector over memories and hypothetical questions     *)
(* made by storeMemory and storeHypotheticalQuestions.                     *)
(***************************************************************************)
\* The similarity scores an index reports.
SimScores == {5, 9}
IndexErrors ==
  { <<"there", "is", "no", "such", "index">>, <<"connection", "lost">> }

\* Sequences of at most n elements of S.
SeqsUpTo(S, n) == UNION {[1..k -> S] : k \in 0..n}

\* The records a vector index can return for a top-`limit` query over the
\* nodes in the bag B: at most `limit` of them, no node more often than it
\* exists, by non-increasing score.
IndexRecords(B, limit) ==
  {r \in SeqsUpTo([node : DOMAIN B, score : SimScores], limit) :
     /\ \A i, j \in DOMAIN r : i < j => r[i].score >= r[j].score
     /\ \A x \in DOMAIN B :
          Cardinality({i \in DOMAIN r : r[i].node = x}) <= B[x]}

IndexAnswers(B, limit) ==
  {[error |-> Some(message), records |-> <<>>] : message \in IndexErrors}
  \cup {[error |-> Null, records |-> r] : r \in IndexRecords(B, limit)}

MemoryNodes == [m \in DOMAIN memories |-> 1]

NextSearch ==
  \/ StoreMemory("episodic", Null, <<>>, <<>>, NoResolutions)
  \/ \E memoryId \in MemoryIdInputs : \E questionCount \in 1..MaxQuestions :
       StoreHypotheticalQuestions(memoryId, questionCount)
  \/ \E limit \in Limits :
       \E memoryAnswer \in IndexAnswers(MemoryNodes, limit) :
         \E questionAnswer \in IndexAnswers(questions, limit) :
           SearchByVector(memoryAnswer, questionAnswer, limit)

SpecSearch == Init /\ [][NextSearch]_vars

(***************************************************************************)
(* SpecHybrid: hybridSearch over a graph that storeMemory made of          *)
(* MaxLimit + 1 memories, the memory m mentioning the first MentionCount[m]*)
(* of a list of entities, so that two memories share the smaller of their  *)
(* two counts.                                                             *)
(***************************************************************************)
HybridMemories == 1..(MaxLimit + 1)
SharedCounts == {0, 1, 10, 21}

\* The i-th entity of the list: a name of i letters.
EntityNamed(i) ==
  [name |-> [j \in 1..i |-> "a"], type |-> "person", resolvedId |-> Null]

MentionProfiles ==
  {c \in [HybridMemories -> SharedCounts] :
     \A a, b \in HybridMemories : a < b => c[a] <= c[b]}

\* The graph after storeMemory(m, the first c[m] entities of the list) for
\* every memory m in turn: storeMemory creates the Memory, MERGEs each
\* entity by its normalized name and type, and CREATEs one MENTIONS edge
\* per mention.
StoredGraph(c) ==
  LET most == Max({c[m] : m \in DOMAIN c})
  IN [ memories |-> [m \in DOMAIN c |->
                       [content |-> m, summary |-> m, embedding |-> m,
                        type |-> "episodic", status |-> Null, timestamp |-> m,
                        resolutionSummary |-> Null, resolvedAt |-> Null]],
       entities |-> [e \in 1..most |->
                       [name |-> EntityNamed(e).name,
                        normalizedName |-> normalizeEntityName(EntityNamed(e).name),
                        type |-> EntityNamed(e).type, aliases |-> Null,
                        properties |-> Null, version |-> Null]],
       mentions |-> SetToBag({<<m, e>> \in (DOMAIN c) \X (1..most) : e <= c[m]}),
       rels |-> {}, versions |-> [v \in {} |-> 0], pv |-> EmptyBag,
       questions |-> EmptyBag, nextEntity |-> most + 1 ]

InitHybrid ==
  \E c \in MentionProfiles :
    /\ LET g == StoredGraph(c)
       IN /\ memories = g.memories /\ entities = g.entities
          /\ mentions = g.mentions /\ rels = g.rels
          /\ versions = g.versions /\ pv = g.pv
          /\ questions = g.questions /\ nextEntity = g.nextEntity
    /\ inflight = [p \in Sessions |-> Null]
    /\ outcome = Returned("storeMemory", <<MaxLimit + 1>>, <<>>)
    /\ hist = [pre |-> StoredGraph(c),
               mentioned |-> EmptyBag, updates |-> [e \in {} |-> <<>>],
               absorbed |-> [e \in {} |-> 0],
               failed |-> {},
               finished |-> [p \in Sessions |-> Null],
               done |-> {},
               searches |-> 0,
             call |-> Null]

HybridLimits == 1..MaxLimit

\* What the memory index can return: some of the memories, each once.
HybridRecords ==
  {q \in SeqsUpTo([node : HybridMemories, score : {9}], MaxLimit) :
     \A i, j \in DOMAIN q : i # j => q[i].node # q[j].node}

\* The memory index is missing, or it returns at most `limit` memories.
HybridAnswers(limit) ==
  {[error |-> Some(<<"there", "is", "no", "such", "index">>), records |-> <<>>]}
  \cup {[error |-> Null, records |-> r] : r \in {q \in HybridRecords : Len(q) <= limit}}

NoQuestionFound == [error |-> Null, records |-> <<>>]

\* Related memories of one sharedEntities come by ascending or by
\* descending id.
TieBreaks ==
  { [i \in HybridMemories |-> i], [i \in HybridMemories |-> MaxLimit + 2 - i] }

NextHybrid ==
  \E limit \in HybridLimits : \E memoryAnswer \in HybridAnswers(limit) :
    \E tieBreak \in TieBreaks :
      HybridSearch(memoryAnswer, NoQuestionFound, limit, tieBreak)

SpecHybrid == InitHybrid /\ [][NextHybrid]_vars

(***************************************************************************)
(* SpecSimilar: findSimilarEntities over entities made by storeMemory,     *)
(* with names of one or two words of two letters.                          *)
(***************************************************************************)
SimilarRefs ==
  { [name |-> <<"A", "l">>, type |-> "person", resolvedId |-> Null],
    [name |-> <<"A", "l">>, type |-> "place", resolvedId |-> Null],
    [name |-> <<"A", "l", " ", "a", "l">>, type |-> "person", resolvedId |-> Null] }

QueryNames == { <<"A", "l">>, <<" ", "a", "L">>, <<"A", "l", " ", "a", "l">> }
QueryTypes == {Null, Some("person")}
\* Lucene scores, in tenths: below the 0.3 threshold, below 1.0, above 1.0.
FuzzyScores == {2, 8, 12}

\* The words of a name that are sent to the index.
QueryWords(name) ==
  LET words == SplitOnSpaces(name, <<>>)
  IN {words[i] : i \in {j \in DOMAIN words : Len(words[j]) >= 2}}

\* What the fulltext index can answer for one word: an error, or at most
\* two entities, each once, by non-increasing score.
FuzzyAnswers ==
  {[error |-> Some(message), records |-> <<>>] : message \in IndexErrors}
  \cup {[error |-> Null, records |-> r] :
          r \in {q \in SeqsUpTo([node : DOMAIN entities, score : FuzzyScores], 2) :
                   /\ \A i, j \in DOMAIN q : i < j => q[i].score >= q[j].score
                   /\ \A i, j \in DOMAIN q : i # j => q[i].node # q[j].node}}

NextSimilar ==
  \/ \E entity \in SimilarRefs :
       StoreMemory("episodic", Null, <<entity>>, <<>>, NoResolutions)
  \/ \E name \in QueryNames : \E type \in QueryTypes :
       \E fulltext \in [QueryWords(name) -> FuzzyAnswers] :
         FindSimilarEntities(name, type, fulltext)

SpecSimilar == Init /\ [][NextSimilar]_vars

(***************************************************************************)
(* SpecPrepare: prepareMemory over entities made by storeMemory.           *)
(***************************************************************************)
\* What JSON.parse can give for selectedIndex (3 is past the end of every
\* candidate list here) and for confidence.
SelectedIndexes == {-1, 0, 1, 2, 3}
Confidences == {"high", "medium", "low"}
Verdicts == [selectedIndex : SelectedIndexes, confidence : Confidences]

PreparedEntityLists ==
  { <<entity>> : entity \in SimilarRefs }
  \cup { << [name |-> <<"A", "l">>, type |-> "person", resolvedId |-> Null],
            [name |-> <<"A", "l">>, type |-> "place", resolvedId |-> Null] >> }

WordsOf(ents) == UNION {QueryWords(ents[i].name) : i \in DOMAIN ents}

NextPrepare ==
  \/ \E entity \in SimilarRefs :
       StoreMemory("episodic", Null, <<entity>>, <<>>, NoResolutions)
  \/ \E ents \in PreparedEntityLists :
       \E fulltext \in [WordsOf(ents) -> FuzzyAnswers] :
         \E verdicts \in [DOMAIN ents -> Verdicts] :
           PrepareMemory(ents, fulltext, verdicts)

SpecPrepare == Init /\ [][NextPrepare]_vars

(***************************************************************************)
(* SpecStore: MemorySystem.storeMemory with relationships, some of them    *)
(* naming an entity nobody stored, and with resolutions of the extracted   *)
(* names to entity ids.                                                    *)
(***************************************************************************)
StoreMentionLists ==
  {<<a>> : a \in EntityRefs}
  \cup { << [name |-> <<"A", " ", "l">>, type |-> "person", resolvedId |-> Null],
            [name |-> <<"A", " ", " ", "l">>, type |-> "person", resolvedId |-> Null] >>,
         << [name |-> <<"A", " ", "l">>, type |-> "person", resolvedId |-> Null],
            [name |-> <<"A", " ", "l">>, type |-> "place", resolvedId |-> Null] >> }

\* A name no memory mentions.
UnknownName == <<"Z">>
Contexts == {Null, Some("met"), Some("work")}

Relationship(from, to, context) ==
  [from |-> from, to |-> to, type |-> "KNOWS", context |-> context]

\* Relationships from the first to the last mentioned name, to and from the
\* unknown name, and the same relationship twice in one call.
StoreRelationshipLists(ents) ==
  LET first == ents[1].name
      last == ents[Len(ents)].name
  IN {<<>>}
     \cup {<<Relationship(first, last, context)>> : context \in Contexts}
     \cup { <<Relationship(first, UnknownName, Some("met"))>>,
            <<Relationship(UnknownName, last, Some("met"))>>,
            <<Relationship(first, UnknownName, Null),
              Relationship(first, last, Some("met"))>>,
            <<Relationship(first, last, Some("met")),
              Relationship(first, last, Some("work"))>> }

\* Entity ids a resolution can name: the id of an entity that exists when
\* the call is made, or 0, an id that was never issued.
ResolvedIds == {0} \cup DOMAIN entities
ResolutionMaps(ents) ==
  UNION {[names -> ResolvedIds] : names \in SUBSET {ents[i].name : i \in DOMAIN ents}}

QuestionCounts(relationships) == IF relationships = <<>> THEN {0, 1} ELSE {0}

NextStore ==
  \E ents \in StoreMentionLists :
    \E relationships \in StoreRelationshipLists(ents) :
      \E entityResolutions \in ResolutionMaps(ents) :
        \E questionCount \in QuestionCounts(relationships) :
          SystemStoreMemory("episodic", ents, relationships, entityResolutions,
                            questionCount)

SpecStore == Init /\ [][NextStore]_vars

(***************************************************************************)
(* SpecAliases: entities that gain aliases by mergeEntities, and memories  *)
(* stored afterwards that mention a name.                                  *)
(***************************************************************************)
NextAliases ==
  \/ \E ents \in StoreMentionLists :
       SystemStoreMemory("episodic", ents, <<>>, NoResolutions, 0)
  \/ \E keepId \in EntityIdInputs : \E removeId \in EntityIdInputs :
       MergeEntities(keepId, removeId)

SpecAliases == Init /\ [][NextAliases]_vars

(***************************************************************************)
(* Properties.  Pre is the graph as the last call found it, Keep and       *)
(* Remove the arguments of the last mergeEntities call.                    *)
(***************************************************************************)
Pre == hist.pre
Range(s) == {s[i] : i \in DOMAIN s}
Min(a, b) == IF a < b THEN a ELSE b
Aliases(g, e) == OrElse(g.entities[e].aliases, <<>>)
\* The entities that were the keep side of a successful merge.
Keepers == {hist.absorbed[r].into : r \in DOMAIN hist.absorbed}
NoMergeYet == DOMAIN hist.absorbed = {}

Merged == outcome.op = "mergeEntities" /\ outcome.ok
Keep == outcome.args[1]
Remove == outcome.args[2]
\* A successful merge of two different entities.
MergedTwo == Merged /\ Keep # Remove

C2_MentionCountsAdd ==
  MergedTwo =>
    MentionsInto(mentions, Keep) =
      MentionsInto(Pre.mentions, Keep) + MentionsInto(Pre.mentions, Remove)

\* C2, amended: after a successful merge of two different entities the
\* MENTIONS edges into keep are those into keep before plus one for every
\* memory that mentioned remove and not keep.
C2_MentionsMergedPerMemory ==
  MergedTwo =>
    MentionsInto(mentions, Keep) =
      MentionsInto(Pre.mentions, Keep)
        + Cardinality(MentioningMemories(Pre.mentions, Remove)
                        \ MentioningMemories(Pre.mentions, Keep))

\* A merge where one memory mentioned both entities and another only remove.
C2_Witness ==
  /\ MergedTwo
  /\ MentioningMemories(Pre.mentions, Remove)
       \cap MentioningMemories(Pre.mentions, Keep) # {}
  /\ MentioningMemories(Pre.mentions, Remove)
       \ MentioningMemories(Pre.mentions, Keep) # {}

(***************************************************************************)
(* Names as a reader compares them.                                        *)
(***************************************************************************)
\* The name in lower case, without its leading and trailing spaces.
LowerWithoutOuterSpaces(name) ==
  LET letters == {i \in DOMAIN name : name[i] # " "}
      first == CHOOSE i \in letters : \A j \in letters : i <= j
      last == CHOOSE i \in letters : \A j \in letters : i >= j
  IN IF letters = {} THEN <<>>
     ELSE [i \in 1..(last - first + 1) |-> ToLowerChar(name[first + i - 1])]

\* The same, with every run of spaces inside the name folded to one space.
RECURSIVE FoldSpaces(_)
FoldSpaces(name) ==
  IF Len(name) < 2 THEN name
  ELSE IF name[1] = " " /\ name[2] = " " THEN FoldSpaces(Tail(name))
  ELSE <<name[1]>> \o FoldSpaces(Tail(name))
LowerWithFoldedSpaces(name) == FoldSpaces(LowerWithoutOuterSpaces(name))

\* The MENTIONS edges created for mentions that were linked to entity e.
MentionsCreatedFor(e) ==
  SumCopies(hist.mentioned, {x \in DOMAIN hist.mentioned : x.id = e})

\* C4 as stated: after any sequence of storeMemory calls, two mentioned
\* names of the same type that differ only in letter case or whitespace were
\* linked to the same entity.
C4_CaseAndWhitespaceFolded ==
  NoMergeYet =>
    \A x, y \in DOMAIN hist.mentioned :
      (x.type = y.type
         /\ LowerWithFoldedSpaces(x.name) = LowerWithFoldedSpaces(y.name))
        => x.id = y.id

\* C4, amended: after any sequence of storeMemory calls, two mentioned names
\* of the same type that differ only in letter case or in leading and
\* trailing whitespace were linked to the same entity; there is at most one
\* entity per (normalizedName, type); and an entity has as many incoming
\* MENTIONS edges as there were mentions linked to it.
C4_CaseAndOuterWhitespaceFolded ==
  /\ \A e1, e2 \in DOMAIN entities :
       (entities[e1].normalizedName = entities[e2].normalizedName
          /\ entities[e1].type = entities[e2].type) => e1 = e2
  /\ NoMergeYet =>
       /\ \A x, y \in DOMAIN hist.mentioned :
            (x.type = y.type
               /\ LowerWithoutOuterSpaces(x.name) = LowerWithoutOuterSpaces(y.name))
              => x.id = y.id
       /\ \A e \in DOMAIN entities :
            MentionsInto(mentions, e) = MentionsCreatedFor(e)

\* Two memories mentioned one entity under names that differ in letter case
\* and outer whitespace: one entity, two MENTIONS edges.
C4_Witness ==
  /\ NoMergeYet
  /\ \E x, y \in DOMAIN hist.mentioned :
       /\ x.name # y.name /\ x.id = y.id
       /\ MentioningMemories(mentions, x.id) = {1, 2}
       /\ MentionsInto(mentions, x.id) = 2

\* C6: mergeEntities(id, id) fails with an error and leaves the entity, its
\* MENTIONS edges, its typed relationships and its aliases unchanged.
C6_SelfMergeRejected ==
  (outcome.op = "mergeEntities" /\ Keep = Remove) =>
    /\ ~outcome.ok
    /\ Graph = Pre

Touching(R, e) == {r \in R : r.from = e \/ r.to = e}
\* An endpoint after the merge: remove has become keep.
Moved(x) == IF x = Remove THEN Keep ELSE x
\* Edge e is edge r re-pointed from remove to keep.
Repointed(r, e) ==
  e.from = Moved(r.from) /\ e.type = r.type /\ e.to = Moved(r.to)
SameEnds(a, b) == a.from = b.from /\ a.type = b.type /\ a.to = b.to
EdgeProperties(r) ==
  [context |-> r.context, firstSeen |-> r.firstSeen, lastSeen |-> r.lastSeen]
NoEdgeReferences(e) ==
  /\ Touching(rels, e) = {}
  /\ \A x \in DOMAIN mentions : x[2] # e
  /\ \A x \in DOMAIN pv : x[1] # EntityNode(e)
OneEdgePerEnds == \A a, b \in rels : SameEnds(a, b) => a = b

\* C9 as stated, for two different entities: after a successful merge every
\* typed edge that touched remove exists on keep with the same type,
\* direction, other endpoint and properties, no edge references remove, and
\* keep has one edge at most per type, direction and other entity.
C9_EdgesMovedWithProperties ==
  MergedTwo =>
    /\ \A r \in Touching(Pre.rels, Remove) :
         \E e \in rels : Repointed(r, e) /\ EdgeProperties(e) = EdgeProperties(r)
    /\ NoEdgeReferences(Remove)
    /\ OneEdgePerEnds

\* C9, amended: after a successful merge of two different entities every
\* typed edge that touched remove exists on keep with the same type,
\* direction and other endpoint; an edge keep already had is left as it was,
\* with its own properties, and an edge keep did not have carries the
\* properties of an edge of remove that was re-pointed onto it; no edge
\* references remove, and there is one edge at most per type, direction and
\* pair of entities.
C9_EdgesMovedKeepWins ==
  MergedTwo =>
    /\ \A r \in Touching(Pre.rels, Remove) :
         \E e \in rels :
           /\ Repointed(r, e)
           /\ IF \E k \in Pre.rels : SameEnds(k, e)
                THEN e \in Pre.rels
                ELSE \E r2 \in Touching(Pre.rels, Remove) :
                       Repointed(r2, e) /\ EdgeProperties(e) = EdgeProperties(r2)
    /\ \A k \in Pre.rels \ Touching(Pre.rels, Remove) : k \in rels
    /\ NoEdgeReferences(Remove)
    /\ OneEdgePerEnds

\* A merge where keep and remove each had an edge of one type to the same
\* entity, with different properties, and remove had an edge keep had not.
C9_Witness ==
  /\ MergedTwo
  /\ \E r \in Touching(Pre.rels, Remove) : \E k \in Pre.rels :
       Repointed(r, k) /\ EdgeProperties(k) # EdgeProperties(r)
  /\ \E r \in Touching(Pre.rels, Remove) :
       ~\E k \in Pre.rels : Repointed(r, k)

(***************************************************************************)
(* Aliases across merges.                                                  *)
(***************************************************************************)
\* The live entity that absorbed entity e, directly or through a chain of
\* merges (the empty set when there is none).
RECURSIVE SurvivorOf(_, _)
SurvivorOf(e, fuel) ==
  IF e \in DOMAIN entities THEN {e}
  ELSE IF fuel = 0 \/ e \notin DOMAIN hist.absorbed THEN {}
  ELSE SurvivorOf(hist.absorbed[e].into, fuel - 1)

\* C10: after a successful merge of two different entities, keep's aliases
\* contain the pre-merge name of remove, every pre-merge alias of remove and
\* every pre-merge alias of keep; hence after merge(A, B) and merge(C, A) the
\* aliases of C contain the names of A and of B.
C10_AliasesAccumulate ==
  /\ MergedTwo =>
       /\ Range(Aliases(Pre, Keep)) \subseteq Range(Aliases(Graph, Keep))
       /\ Pre.entities[Remove].name \in Range(Aliases(Graph, Keep))
       /\ Range(Aliases(Pre, Remove)) \subseteq Range(Aliases(Graph, Keep))
  /\ \A b \in DOMAIN hist.absorbed :
       \A c \in SurvivorOf(b, Cardinality(DOMAIN hist.absorbed)) :
         hist.absorbed[b].name \in Range(Aliases(Graph, c))

\* merge(A, B) and then merge(C, A) succeeded, for three entities.
C10_Witness ==
  /\ MergedTwo
  /\ \E b \in DOMAIN hist.absorbed :
       /\ hist.absorbed[b].into = Remove
       /\ b # Remove /\ b # Keep
       /\ Keep \in DOMAIN entities
       /\ hist.absorbed[b].name # hist.absorbed[Remove].name

\* The entity id the last call was asked to remove, update or read.
Subject ==
  CASE outcome.op = "mergeEntities" -> {outcome.args[2]}
    [] outcome.op \in {"updateEntity", "getEntityHistory"} -> {outcome.args[1]}
    [] OTHER -> {}

\* C8: after a successful merge the remove entity no longer exists, and
\* every later mergeEntities, updateEntity or getEntityHistory call with
\* that remove id raises a not-found error and changes nothing.
C8_AbsorbedIsGone ==
  /\ \A r \in DOMAIN hist.absorbed : r \notin DOMAIN entities
  /\ \A r \in Subject :
       (r \in DOMAIN hist.absorbed /\ r \notin DOMAIN Pre.entities) =>
         /\ ~outcome.ok
         /\ outcome.error = "not found"
         /\ Graph = Pre

\* A second merge of an entity that was merged away was refused, its keep
\* entity being there.
C8_Witness ==
  /\ outcome.op = "mergeEntities" /\ ~outcome.ok
  /\ Remove \in DOMAIN hist.absorbed
  /\ Keep \in DOMAIN entities
  /\ hist.absorbed[Remove].into = Keep

\* C3: the writes of one remember call commit atomically, so the Memory of
\* a remember call that failed does not exist.
C3_NoMemoryOfFailedRemember ==
  \A m \in hist.failed : m \notin DOMAIN memories

\* The last updateEntity call a session completed: it returned, having
\* read `current` and written.
Finished(p) == hist.finished[p][1]
\* The last calls of two sessions were on one entity, and both read it
\* before either wrote.
Overlapped(p, q) ==
  /\ p # q
  /\ ~IsNull(hist.finished[p]) /\ ~IsNull(hist.finished[q])
  /\ Finished(p).entityId = Finished(q).entityId
  /\ Finished(p).current.version = Finished(q).current.version

\* C5: when two updateEntity calls on one entity have both read it before
\* either wrote, both return without an error, the entity's version is one
\* more than the version they read (not two more), and its properties are
\* those read plus the keys of one of the two calls only.
C5_LostUpdate ==
  \A p, q \in Sessions :
    Overlapped(p, q) =>
      LET e == Finished(p).entityId
      IN /\ e \in DOMAIN entities
         /\ CurrentEntity(Graph, e).version = Finished(p).current.version + 1
         /\ \E w \in {p, q} :
              CurrentEntity(Graph, e).properties =
                ObjectSpread(Finished(w).current.properties, Finished(w).propertyUpdates)

\* Two overlapping updates of different keys have both returned, and the
\* entity is at version 1 and holds the key of one of them only.
C5_Witness ==
  \E p, q \in Sessions :
    /\ Overlapped(p, q)
    /\ DOMAIN Finished(p).propertyUpdates # DOMAIN Finished(q).propertyUpdates
    /\ DOMAIN CurrentEntity(Graph, Finished(p).entityId).properties
         = DOMAIN Finished(q).propertyUpdates
    /\ CurrentEntity(Graph, Finished(p).entityId).version = 1

\* C11: resolvedAt is stamped once: an updateTodoStatus(id, "done") on a
\* memory that is already done leaves its resolvedAt as it was.
C11_ResolvedAtStampedOnce ==
  (/\ outcome.op = "updateTodoStatus" /\ outcome.ok
   /\ outcome.args[2] = "done"
   /\ outcome.args[1] \in DOMAIN Pre.memories
   /\ Pre.memories[outcome.args[1]].status = Some("done"))
  => memories[outcome.args[1]].resolvedAt = Pre.memories[outcome.args[1]].resolvedAt

\* C12: done is terminal: a memory whose status was once done is done, and
\* listTodos does not return it.
C12_DoneIsTerminal ==
  \A m \in hist.done :
    /\ memories[m].status = Some("done")
    /\ \A i \in DOMAIN listTodos(Graph) : listTodos(Graph)[i].id # m

(***************************************************************************)
(* Properties of searchByVector.  The arguments of the last call are the   *)
(* two index answers and the limit.                                        *)
(***************************************************************************)
Searched == outcome.op = "searchByVector"
MemoryAnswer == outcome.args[1]
QuestionAnswer == outcome.args[2]
SearchLimit == outcome.args[3]
IsMissingIndex(answer) ==
  ~IsNull(answer.error) /\ Includes(answer.error[1], NoSuchIndex)
IsOtherError(answer) ==
  ~IsNull(answer.error) /\ ~Includes(answer.error[1], NoSuchIndex)
\* The scores with which the indexes hit memory m, directly and through its
\* questions.
DirectScores(m) ==
  IF ~IsNull(MemoryAnswer.error) THEN {}
  ELSE {MemoryAnswer.records[i].score :
          i \in {j \in DOMAIN MemoryAnswer.records : MemoryAnswer.records[j].node = m}}
QuestionScores(m) ==
  IF ~IsNull(QuestionAnswer.error) THEN {}
  ELSE {QuestionAnswer.records[i].score :
          i \in {j \in DOMAIN QuestionAnswer.records :
                   QuestionAnswer.records[j].node = Some(m)}}
HitScores(m) == DirectScores(m) \cup QuestionScores(m)
HitMemories == {m \in DOMAIN memories : HitScores(m) # {}}
BestScore(m) == Max(HitScores(m))
Ids(v) == {v[i].id : i \in DOMAIN v}

\* C18: searchByVector(q, k) returns at most k memories, none twice; when
\* the indexes hit some memory, these are the hit memories of the highest
\* best score (the highest of a memory's direct and question scores), by
\* non-increasing best score.
C18_RankedByBestScore ==
  (Searched /\ outcome.ok) =>
    LET v == outcome.value
    IN /\ Len(v) <= SearchLimit
       /\ \A i, j \in DOMAIN v : i # j => v[i].id # v[j].id
       /\ HitMemories # {} =>
            /\ Ids(v) \subseteq HitMemories
            /\ Len(v) = Min(SearchLimit, Cardinality(HitMemories))
            /\ \A i, j \in DOMAIN v : i < j => BestScore(v[i].id) >= BestScore(v[j].id)
            /\ \A m \in HitMemories \ Ids(v) :
                 \A i \in DOMAIN v : BestScore(v[i].id) >= BestScore(m)

\* A memory that the memory index ranks last, with a lower score than one
\* of its questions gets, is returned first.
C18_Witness ==
  /\ Searched /\ outcome.ok
  /\ \E m \in HitMemories :
       /\ DirectScores(m) # {} /\ QuestionScores(m) # {}
       /\ Max(DirectScores(m)) < Max(QuestionScores(m))
       /\ MemoryAnswer.records[1].node # m
       /\ outcome.value[1].id = m

Hybrid == outcome.op = "hybridSearch" /\ outcome.ok
Seeds == searchByVector(Graph, MemoryAnswer, QuestionAnswer, SearchLimit).value
SeedIds == Ids(Seeds)
\* The rank i of a seed, from 0.
SeedRank(m) == (CHOOSE i \in DOMAIN Seeds : Seeds[i].id = m) - 1
\* score = 1 - i/n, score > 1 - i/n and score < 1 - i/n for the seed of rank i.
IsRankScore(score, i) == score * Len(Seeds) = ScoreUnit * (Len(Seeds) - i)
AboveRankScore(score, i) == score * Len(Seeds) > ScoreUnit * (Len(Seeds) - i)
BelowRankScore(score, i) == score * Len(Seeds) < ScoreUnit * (Len(Seeds) - i)
ResultIds == {outcome.value[i].memory.id : i \in DOMAIN outcome.value}
GraphOnly == {i \in DOMAIN outcome.value : outcome.value[i].memory.id \notin SeedIds}
PositionOf(m) == CHOOSE i \in DOMAIN outcome.value : outcome.value[i].memory.id = m
Shared(a, b) == SharedEntities(Graph, a, b)
\* The memories the expansion reaches: the seeds and what shares an entity
\* with a seed.
Reached ==
  SeedIds \cup {r \in DOMAIN memories : \E a \in SeedIds : a # r /\ Shared(a, r) > 0}
\* The seed of least rank that shares an entity with m.
FirstReaching(m) ==
  CHOOSE a \in SeedIds :
    /\ Shared(a, m) > 0
    /\ \A b \in SeedIds : Shared(b, m) > 0 => SeedRank(a) <= SeedRank(b)

\* C13: a memory that is in the result through graph expansion only has
\* no greater score than the top vector seed and comes after it.
C13_NeighborBelowTopSeed ==
  (Hybrid /\ Seeds # <<>>) =>
    \A i \in GraphOnly :
      \E j \in 1..(i - 1) :
        /\ outcome.value[j].memory.id = Seeds[1].id
        /\ outcome.value[i].score <= outcome.value[j].score

\* C14: every score is in [0,1]; the seed of rank i of n has 1 - i/n; a
\* graph neighbor has min(1, sharedCount/10) * 0.5 for the sharedCount of a
\* seed, and so at most 0.5.
C14_ScoresInUnitInterval ==
  Hybrid =>
    \A i \in DOMAIN outcome.value :
      LET entry == outcome.value[i]
      IN /\ 0 <= entry.score /\ entry.score <= ScoreUnit
         /\ entry.memory.id \in SeedIds =>
              IsRankScore(entry.score, SeedRank(entry.memory.id))
         /\ entry.memory.id \notin SeedIds =>
              /\ entry.score * 2 <= ScoreUnit
              /\ \E a \in SeedIds :
                   entry.score * 20 = Min(10, Shared(a, entry.memory.id)) * ScoreUnit

\* C15: hybridSearch(q, k) returns at most k results, by non-increasing
\* score, no memory twice.
C15_AtMostKByScore ==
  Hybrid =>
    LET v == outcome.value
    IN /\ Len(v) <= SearchLimit
       /\ \A i, j \in DOMAIN v : i < j => v[i].score >= v[j].score
       /\ \A i, j \in DOMAIN v : i # j => v[i].memory.id # v[j].memory.id

\* The expansion reached more memories than the limit allows, and a
\* graph-only memory is among the k returned.
C15_Witness ==
  /\ Hybrid
  /\ Len(outcome.value) = SearchLimit
  /\ GraphOnly # {}
  /\ Reached \ ResultIds # {}
  /\ \E i, j \in DOMAIN outcome.value : outcome.value[i].score > outcome.value[j].score

C17_SeedKeepsRankScore ==
  Hybrid =>
    \A i \in DOMAIN outcome.value :
      outcome.value[i].memory.id \in SeedIds =>
        IsRankScore(outcome.value[i].score, SeedRank(outcome.value[i].memory.id))

\* Two seeds share entities, so that the later one is found as a neighbor
\* before its turn as a seed and the earlier one as a neighbor after its
\* turn; both are in the result, and their graph score is not their rank
\* score.
C17_Witness ==
  /\ Hybrid
  /\ \E a, b \in SeedIds \cap ResultIds :
       /\ SeedRank(a) < SeedRank(b)
       /\ Shared(a, b) > 0
       /\ ~IsRankScore(GraphScore(Shared(a, b)), SeedRank(b))
       /\ ~IsRankScore(GraphScore(Shared(b, a)), SeedRank(a))

\* C20: findSimilarEntities returns no entity id twice, and every entity
\* whose normalizedName is the normalized query (and whose type is the type
\* asked for, if one is) is returned with score 1.0, whatever the fulltext
\* index answers.
C20_ExactMatchesScoreOne ==
  (outcome.op = "findSimilarEntities" /\ outcome.ok) =>
    LET v == outcome.value
        name == outcome.args[1]
        type == outcome.args[2]
    IN /\ \A i, j \in DOMAIN v : i # j => v[i].entity.id # v[j].entity.id
       /\ \A e \in DOMAIN entities :
            (/\ entities[e].normalizedName = LowerWithoutOuterSpaces(name)
             /\ (IsNull(type) \/ entities[e].type = type[1]))
            => \E i \in DOMAIN v : v[i].entity.id = e /\ v[i].score = 10

\* The index reports a score above 1.0 for an entity that matches the
\* query exactly and a score for an entity that does not; both are
\* returned.
C20_Witness ==
  /\ outcome.op = "findSimilarEntities" /\ outcome.ok
  /\ Len(outcome.value) = 2
  /\ outcome.value[2].score < 10
  /\ entities[outcome.value[1].entity.id].normalizedName
       = LowerWithoutOuterSpaces(outcome.args[1])
  /\ \E w \in DOMAIN outcome.args[3] :
       \E i \in DOMAIN outcome.args[3][w].records :
         /\ outcome.args[3][w].records[i].node = outcome.value[1].entity.id
         /\ outcome.args[3][w].records[i].score > 10

\* The calls prepareMemory made to the disambiguator, and the entry it
\* recorded for an entity.
Prepared == outcome.op = "prepareMemory" /\ outcome.ok
Asked == outcome.args[3]
EntriesFor(entity) ==
  {i \in DOMAIN outcome.value : outcome.value[i].extractedEntity = entity}

C22_ZeroMeansNewEntity ==
  Prepared =>
    \A a \in DOMAIN Asked :
      Asked[a].result.selectedIndex = 0 => EntriesFor(Asked[a].entity) = {}

\* C23: updateEntity and getEntityHistory with an id that matches no entity
\* throw "not found", and the graph is as it was: no EntityVersion is
\* created and no entity is changed.
C23_MissingEntityNotFound ==
  (/\ outcome.op \in {"updateEntity", "getEntityHistory"}
   /\ outcome.args[1] \notin DOMAIN Pre.entities)
  => /\ ~outcome.ok
     /\ outcome.error = "not found"
     /\ versions = Pre.versions
     /\ entities = Pre.entities
     /\ Graph = Pre

\* updateEntity failed for the id of an entity that a merge deleted, while
\* another entity and a snapshot exist.
C23_Witness ==
  /\ outcome.op = "updateEntity" /\ ~outcome.ok
  /\ outcome.args[1] \in DOMAIN hist.absorbed
  /\ DOMAIN entities # {}
  /\ DOMAIN versions # {}

\* The snapshots getEntityHistory returned.
History == outcome.value.history

\* C24: getEntityHistory(e, limit) returns snapshots by strictly decreasing
\* version; for an entity at version k with more than limit snapshots
\* they are the versions k-1 down to k-limit.
C24_NewestFirstTruncated ==
  (outcome.op = "getEntityHistory" /\ outcome.ok) =>
    LET k == outcome.value.current.version
        limit == outcome.args[2]
    IN /\ \A i, j \in DOMAIN History :
            i < j => History[i].version > History[j].version
       /\ Len(History) <= limit
       /\ k > limit => \A i \in 1..limit :
                         /\ i \in DOMAIN History
                         /\ History[i].version = k - i

\* C25: after updateEntity(e, updates) the properties of e are the previous
\* ones overridden by updates: every key of updates has its new value, every
\* other key keeps its value, and no key is removed.
C25_UpdatesOverridePrevious ==
  (outcome.op = "updateEntity" /\ outcome.ok) =>
    LET e == outcome.args[1]
        updates == outcome.args[2]
        before == IF IsNull(Pre.entities[e].properties) THEN <<>>
                  ELSE JsonParse(Pre.entities[e].properties[1])
        after == CurrentEntity(Graph, e).properties
    IN /\ \A key \in DOMAIN updates :
            key \in DOMAIN after /\ after[key] = updates[key]
       /\ \A key \in DOMAIN before \ DOMAIN updates :
            key \in DOMAIN after /\ after[key] = before[key]
       /\ DOMAIN after = DOMAIN before \cup DOMAIN updates

\* An update replaced the value of one key and kept another key.
C25_Witness ==
  /\ outcome.op = "updateEntity" /\ outcome.ok
  /\ LET e == outcome.args[1]
         updates == outcome.args[2]
         before == IF IsNull(Pre.entities[e].properties) THEN <<>>
                   ELSE JsonParse(Pre.entities[e].properties[1])
     IN /\ \E key \in DOMAIN before \cap DOMAIN updates : before[key] # updates[key]
        /\ DOMAIN before \ DOMAIN updates # {}

\* The last call of MemorySystem.storeMemory and what it was given.
Stored == outcome.op = "storeMemory" /\ ~IsNull(hist.call)
Call == hist.call[1]
\* The entities a relationship endpoint names: the resolved id if the name
\* has a resolution, the entities of that normalized name otherwise.
Ends(name) ==
  IF name \in DOMAIN Call.entityResolutions
    THEN {Call.entityResolutions[name]} \cap DOMAIN entities
    ELSE {e \in DOMAIN entities :
            entities[e].normalizedName = LowerWithoutOuterSpaces(name)}
Resolvable(rel) == Ends(rel.from) # {} /\ Ends(rel.to) # {}
NewEntities == DOMAIN entities \ DOMAIN Pre.entities

\* C26: a relationship with an endpoint that names no entity is skipped:
\* the call succeeds, the Memory and its MENTIONS edges are stored, no
\* entity is created for a relationship, every new or changed edge belongs
\* to a relationship with both endpoints, and every such relationship has
\* its edge.
C26_UnresolvableRelationshipSkipped ==
  Stored =>
    /\ outcome.ok
    /\ Call.memory \in DOMAIN memories
    /\ \A e \in NewEntities :
         /\ MentionCount(mentions, Call.memory, e) > 0
         /\ \E i \in DOMAIN Call.entities :
              /\ entities[e].normalizedName
                   = LowerWithoutOuterSpaces(Call.entities[i].name)
              /\ entities[e].type = Call.entities[i].type
    /\ \A i \in DOMAIN Call.entities :
         Call.entities[i].name \notin DOMAIN Call.entityResolutions =>
           \E e \in DOMAIN entities :
             /\ MentionCount(mentions, Call.memory, e) > 0
             /\ entities[e].normalizedName
                  = LowerWithoutOuterSpaces(Call.entities[i].name)
             /\ entities[e].type = Call.entities[i].type
    /\ \A r \in rels \ Pre.rels :
         \E i \in DOMAIN Call.relationships :
           /\ Resolvable(Call.relationships[i])
           /\ r.type = Call.relationships[i].type
           /\ r.from \in Ends(Call.relationships[i].from)
           /\ r.to \in Ends(Call.relationships[i].to)
    /\ \A i \in DOMAIN Call.relationships :
         \A from \in Ends(Call.relationships[i].from) :
           \A to \in Ends(Call.relationships[i].to) :
             \E r \in rels : /\ r.from = from /\ r.to = to
                             /\ r.type = Call.relationships[i].type

\* A call whose first relationship names an unknown entity and whose
\* second relationship was stored between two entities.
C26_Witness ==
  /\ Stored
  /\ Len(Call.relationships) = 2
  /\ ~Resolvable(Call.relationships[1])
  /\ Resolvable(Call.relationships[2])
  /\ \E r \in rels \ Pre.rels : r.from # r.to

\* The relationships of the call that observe the edge r, by position.
Observing(r) ==
  {i \in DOMAIN Call.relationships :
     /\ r.type = Call.relationships[i].type
     /\ r.from \in Ends(Call.relationships[i].from)
     /\ r.to \in Ends(Call.relationships[i].to)}
SameEdge(a, b) == a.from = b.from /\ a.to = b.to /\ a.type = b.type
First(S) == CHOOSE i \in S : \A j \in S : i <= j

\* C27: relationship edges are upserted.  After a storeMemory call there is
\* one edge per (from, to, type); an edge the call observed for the first
\* time has firstSeen of this call and the context of its first
\* observation; an edge that existed keeps firstSeen and context and has
\* only lastSeen set; an edge the call did not observe is as it was.
C27_EdgeUpsertedLastSeenOnly ==
  Stored =>
    /\ \A a, b \in rels : SameEdge(a, b) => a = b
    /\ \A p \in Pre.rels : \E r \in rels : SameEdge(p, r)
    /\ \A r \in rels :
         IF \E p \in Pre.rels : SameEdge(p, r)
           THEN LET p == CHOOSE p \in Pre.rels : SameEdge(p, r)
                IN IF Observing(r) = {} THEN r = p
                   ELSE r = [p EXCEPT !.lastSeen = Some(Call.memory)]
           ELSE /\ Observing(r) # {}
                /\ r.firstSeen = Call.memory
                /\ r.context = OrElse(Call.relationships[First(Observing(r))].context, "")
                /\ r.lastSeen = IF Cardinality(Observing(r)) > 1
                                  THEN Some(Call.memory) ELSE Null

\* The second memory observed, with another context, an edge that the
\* first memory created.
C27_Witness ==
  /\ Stored
  /\ Call.memory = 2
  /\ \E r \in rels :
       /\ r.firstSeen = 1
       /\ r.lastSeen = Some(2)
       /\ \E i \in Observing(r) :
            OrElse(Call.relationships[i].context, "") # r.context

\* The mentions of the call that are linked to entity e: those resolved to
\* its id, and those without a resolution that carry its normalized name
\* and type.
MentionsResolvedTo(e) ==
  {i \in DOMAIN Call.entities :
     /\ Call.entities[i].name \in DOMAIN Call.entityResolutions
     /\ Call.entityResolutions[Call.entities[i].name] = e}
MentionsByName(e) ==
  {i \in DOMAIN Call.entities :
     /\ Call.entities[i].name \notin DOMAIN Call.entityResolutions
     /\ entities[e].normalizedName = LowerWithoutOuterSpaces(Call.entities[i].name)
     /\ entities[e].type = Call.entities[i].type}

\* C28: with a resolution name -> id, the memory's MENTIONS edge for a
\* mention of that name goes to the entity with that id and to no entity
\* matched by the name, no entity is created for it, and the edges of the
\* relationships that name it start or end at the entity with that id.
C28_ResolutionOverridesName ==
  Stored =>
    /\ \A e \in DOMAIN entities :
         MentionCount(mentions, Call.memory, e)
           = Cardinality(MentionsResolvedTo(e)) + Cardinality(MentionsByName(e))
    /\ \A e \in NewEntities : MentionsByName(e) # {}
    /\ \A r \in rels \ Pre.rels : Observing(r) # {}
    /\ \A i \in DOMAIN Call.relationships :
         \A from \in Ends(Call.relationships[i].from) :
           \A to \in Ends(Call.relationships[i].to) :
             \E r \in rels : /\ r.from = from /\ r.to = to
                             /\ r.type = Call.relationships[i].type

\* Two names are resolved each to the entity that carries the other name:
\* the memory mentions both and the new edge runs between the resolved
\* entities, against the direction the names alone would give.
C28_Witness ==
  /\ Stored
  /\ Len(Call.relationships) = 1
  /\ LET from == Call.relationships[1].from
         to == Call.relationships[1].to
     IN /\ from \in DOMAIN Call.entityResolutions
        /\ to \in DOMAIN Call.entityResolutions
        /\ Call.entityResolutions[from] = 2
        /\ Call.entityResolutions[to] = 1
        /\ {1, 2} \subseteq DOMAIN entities
        /\ entities[1].normalizedName = LowerWithoutOuterSpaces(from)
        /\ entities[2].normalizedName = LowerWithoutOuterSpaces(to)
        /\ \E r \in rels \ Pre.rels : r.from = 2 /\ r.to = 1
        /\ ~\E r \in rels : r.from = 1 /\ r.to = 2
        /\ MentionCount(mentions, Call.memory, 1) = 1
        /\ MentionCount(mentions, Call.memory, 2) = 1

\* The entities that, before the call, had the type and an alias equal to
\* the name up to case, or the type and the normalized name.
AliasOwners(name, type) ==
  {e \in DOMAIN Pre.entities :
     /\ Pre.entities[e].type = type
     /\ \E k \in DOMAIN Aliases(Pre, e) :
          ToLowerCase(Aliases(Pre, e)[k]) = ToLowerCase(name)}
NameOwners(name, type) ==
  {e \in DOMAIN Pre.entities :
     /\ Pre.entities[e].type = type
     /\ Pre.entities[e].normalizedName = LowerWithoutOuterSpaces(name)}
CreatedFor(name, type) ==
  {e \in NewEntities :
     /\ entities[e].type = type
     /\ entities[e].normalizedName = LowerWithoutOuterSpaces(name)}

\* C29: storeMemory links a mention whose name is, up to case, an alias of
\* an entity of the same type to that entity and creates no entity for it;
\* a name that is neither a normalized name nor an alias creates exactly
\* one entity.
C29_AliasMatchesMention ==
  Stored =>
    \A i \in DOMAIN Call.entities :
      LET name == Call.entities[i].name
          type == Call.entities[i].type
      IN /\ AliasOwners(name, type) # {} =>
              /\ \E e \in AliasOwners(name, type) :
                   MentionCount(mentions, Call.memory, e) > 0
              /\ CreatedFor(name, type) = {}
         /\ (AliasOwners(name, type) = {} /\ NameOwners(name, type) = {}) =>
              Cardinality(CreatedFor(name, type)) = 1

\* C30: no entity's alias list holds the same alias twice, aliases being
\* compared without regard to case.
C30_AliasesAreASet ==
  \A e \in DOMAIN entities :
    \A i, j \in DOMAIN Aliases(Graph, e) :
      i # j => ToLowerCase(Aliases(Graph, e)[i]) # ToLowerCase(Aliases(Graph, e)[j])

(***************************************************************************)
(* SpecUpdates: remember over names of one or two words of two letters,    *)
(* with a property update for a one-word name and an index that answers.   *)
(***************************************************************************)
UpdateNames == { <<"A", "l">>, <<" ", "a", "L">> }
\* Lucene scores, in tenths: below 1.0, 1.0 and above 1.0.
UpdateScores == {8, 10, 12}

UpdateExtractions ==
  [ type : {"episodic"},
    entities : {<<a>> : a \in SimilarRefs}
               \cup {<< [name |-> <<"A", "l", " ", "a", "l">>, type |-> "person",
                         resolvedId |-> Null],
                        [name |-> <<"A", "l">>, type |-> "person", resolvedId |-> Null] >>},
    relationships : {<<>>},
    hypotheticalQuestions : {0},
    propertyUpdates :
      {<<>>} \cup {<<[entityName |-> n, updates |-> [k \in {key} |-> "new"]]>> :
                     n \in UpdateNames, key \in {"email", "phone"}} ]

\* What the fulltext index can answer for one word: an error, or at most
\* one entity.
UpdateAnswers ==
  {[error |-> Some(message), records |-> <<>>] : message \in IndexErrors}
  \cup {[error |-> Null, records |-> <<>>]}
  \cup {[error |-> Null, records |-> <<[node |-> e, score |-> x]>>] :
          e \in DOMAIN entities, x \in UpdateScores}

UpdateWords(extracted) ==
  UNION {QueryWords(extracted.propertyUpdates[i].entityName) :
           i \in DOMAIN extracted.propertyUpdates}

NextUpdates ==
  \E extracted \in UpdateExtractions :
    \E fulltext \in [UpdateWords(extracted) -> UpdateAnswers] :
      Remember(extracted, fulltext, "none")

SpecUpdates == Init /\ [][NextUpdates]_vars

\* The entities of the graph before the call whose normalizedName is that of
\* `name`: the ones findSimilarEntities scores 1.0.
ExactlyMatching(name) ==
  {e \in DOMAIN hist.pre.entities :
     hist.pre.entities[e].normalizedName = normalizeEntityName(name)}

\* The entities the last call gave another version or other properties.
UpdatedByCall ==
  {e \in DOMAIN hist.pre.entities :
     \/ e \notin DOMAIN entities
     \/ entities[e].version # hist.pre.entities[e].version
     \/ entities[e].properties # hist.pre.entities[e].properties}

\* remember has returned from a call that carried one property update.
RememberedUpdate ==
  /\ outcome.op = "remember"
  /\ outcome.ok
  /\ ~IsNull(hist.call)
  /\ Len(hist.call[1].propertyUpdates) = 1

\* C31: a property update of remember changes only an entity whose
\* normalizedName is that of the update's entity name; when there is such an
\* entity, one is updated, and when there is none, no entity is updated.
C31_UpdateOnlyExactMatch ==
  RememberedUpdate =>
    LET exact == ExactlyMatching(hist.call[1].propertyUpdates[1].entityName)
    IN /\ UpdatedByCall \subseteq exact
       /\ exact # {} => Cardinality(UpdatedByCall) = 1

(***************************************************************************)
(* withRetry(fn, retries = 1, delay = 1000).  A call in progress is kept   *)
(* in `inflight`: the retries it has left, whether it awaits fn or the     *)
(* timer, and what it has seen so far.                                     *)
(***************************************************************************)
DefaultRetries == 1

\* What fn can reject with: null or undefined, or a value whose status is
\* missing or a number.
Statuses == {Null, Some(0), Some(404), Some(503)}
Rejections ==
  {[object |-> FALSE, status |-> Null]}
  \cup {[object |-> TRUE, status |-> status] : status \in Statuses}
\* What fn can resolve with.
Results == {[result |-> "ok"]}

\* retries > 0 && error.status && error.status >= 500, for an error whose
\* status can be read.
ShouldRetryAnyError(retries, error) ==
  retries > 0

ShouldRetry(retries, error) ==
  /\ retries > 0
  /\ ~IsNull(error.status)
  /\ error.status[1] # 0
  /\ error.status[1] >= 500

\* What the catch block throws when it does not retry: the error, or the
\* TypeError of reading .status of null.
Surfaced(error) ==
  IF error.object THEN error ELSE [object |-> TRUE, status |-> Null]

\* withRetry(fn) is called with `retries`: fn is invoked.
WithRetry(session, retries) ==
  /\ IsNull(inflight[session])
  /\ inflight' = [inflight EXCEPT ![session] =
       Some([given |-> retries, retries |-> retries, at |-> "fn",
             attempts |-> 1, failures |-> <<>>, delays |-> 0])]
  /\ UNCHANGED <<graph, outcome, hist>>

\* return await fn(): fn resolves.
FnResolves(session, value) ==
  /\ ~IsNull(inflight[session])
  /\ inflight[session][1].at = "fn"
  /\ LET call == inflight[session][1]
     IN outcome' = Returned("withRetry",
                            <<call.given, call.attempts, call.failures, call.delays>>,
                            value)
  /\ inflight' = [inflight EXCEPT ![session] = Null]
  /\ UNCHANGED <<graph, hist>>

\* catch (error): fn rejects; the timer is set, or the error is thrown.
FnRejects(session, error) ==
  /\ ~IsNull(inflight[session])
  /\ inflight[session][1].at = "fn"
  /\ LET call == inflight[session][1]
     IN IF error.object /\ ShouldRetry(call.retries, error)
          THEN /\ inflight' = [inflight EXCEPT ![session] =
                    Some([call EXCEPT !.at = "delay",
                                      !.failures = Append(@, error)])]
               /\ UNCHANGED outcome
          ELSE /\ inflight' = [inflight EXCEPT ![session] = Null]
               /\ outcome' = [Threw("withRetry",
                                    <<call.given, call.attempts,
                                      Append(call.failures, error), call.delays>>,
                                    "rejected")
                                EXCEPT !.value = Surfaced(error)]
  /\ UNCHANGED <<graph, hist>>

\* The timer of `delay` fires: return withRetry(fn, retries - 1, delay).
DelayElapses(session) ==
  /\ ~IsNull(inflight[session])
  /\ inflight[session][1].at = "delay"
  /\ inflight' = [inflight EXCEPT ![session] =
       Some([inflight[session][1] EXCEPT !.at = "fn", !.retries = @ - 1,
                                         !.attempts = @ + 1, !.delays = @ + 1])]
  /\ UNCHANGED <<graph, outcome, hist>>

(***************************************************************************)
(* SpecRetry: two callers of withRetry; every promise settles and every    *)
(* timer fires.                                                            *)
(***************************************************************************)
RetryInputs == {0, DefaultRetries, 2}

Settles(session) ==
  \/ \E value \in Results : FnResolves(session, value)
  \/ \E error \in Rejections : FnRejects(session, error)
  \/ DelayElapses(session)

NextRetry ==
  \/ \E session \in Sessions : \E retries \in RetryInputs : WithRetry(session, retries)
  \/ \E session \in Sessions : \E value \in Results : FnResolves(session, value)
  \/ \E session \in Sessions : \E error \in Rejections : FnRejects(session, error)
  \/ \E session \in Sessions : DelayElapses(session)

SpecRetry ==
  /\ Init
  /\ [][NextRetry]_vars
  /\ \A session \in Sessions : WF_vars(Settles(session))

\* A status of the 5xx class, as the code tests it.
IsServerError(error) ==
  error.object /\ ~IsNull(error.status) /\ error.status[1] >= 500

\* What a finished call with the default retries has done.
RetryOutcome ==
  (outcome.op = "withRetry" /\ outcome.args[1] = DefaultRetries) =>
    LET attempts == outcome.args[2]
        failures == outcome.args[3]
        delays == outcome.args[4]
    IN /\ attempts <= 2
       /\ delays = attempts - 1
       /\ Len(failures) = IF outcome.ok THEN attempts - 1 ELSE attempts
       /\ (failures # <<>> /\ IsServerError(failures[1])) => attempts = 2
       /\ (failures # <<>> /\ ~IsServerError(failures[1])) =>
            attempts = 1 /\ ~outcome.ok
       /\ ~outcome.ok => outcome.value = Surfaced(failures[Len(failures)])

\* A call in progress with the default retries has invoked fn at most twice.
RetryInFlight ==
  \A session \in Sessions :
    (~IsNull(inflight[session]) /\ inflight[session][1].given = DefaultRetries) =>
      inflight[session][1].attempts <= 2

\* C32: a call of withRetry with the default retries invokes fn at most
\* twice: a failure with status >= 500 is retried once after the delay, any
\* other failure and a failure of the retry are thrown to the caller, and
\* every call ends with a result or an error.
C32_RetriedOnceThenSurfaced ==
  /\ [](RetryOutcome /\ RetryInFlight)
  /\ \A session \in Sessions :
       ~IsNull(inflight[session]) ~> IsNull(inflight[session])

\* The retry of a call that failed with 503 has failed with 404, which is
\* thrown.
C32_Witness ==
  /\ outcome.op = "withRetry"
  /\ outcome.args[1] = DefaultRetries
  /\ ~outcome.ok
  /\ outcome.args[2] = 2
  /\ outcome.args[3] = <<[object |-> TRUE, status |-> Some(503)],
                         [object |-> TRUE, status |-> Some(404)]>>
  /\ outcome.args[4] = 1

(***************************************************************************)
(* SpecWrites: every handler that writes to the graph, over memories that  *)
(* mention one name.                                                       *)
(***************************************************************************)
\* Two spellings of one name and another name.
WrittenRefs ==
  { [name |-> <<"A", " ", "l">>, type |-> "person", resolvedId |-> Null],
    [name |-> <<"A", " ", " ", "l">>, type |-> "person", resolvedId |-> Null] }

NextWrites ==
  \/ \E mtype \in MemoryTypes : \E entity \in WrittenRefs :
       StoreMemory(mtype, IF mtype = "todo" THEN Some("open") ELSE Null,
                   <<entity>>, <<>>, NoResolutions)
  \/ \E memoryId \in DOMAIN memories : StoreHypotheticalQuestions(memoryId, 1)
  \/ \E memoryId \in DOMAIN memories : \E status \in TodoStatuses :
       UpdateTodoStatus(memoryId, status, Some("fixed"), MaxClock)
  \/ \E entityId \in DOMAIN entities :
       UpdateEntity(entityId, [k \in {"email"} |-> "new"])
  \/ \E keepId \in DOMAIN entities : \E removeId \in DOMAIN entities :
       MergeEntities(keepId, removeId)

SpecWrites == Init /\ [][NextWrites]_vars

\* The properties CREATE (m:Memory {...}) writes from the caller's Memory.
Written(node) ==
  [content |-> node.content, summary |-> node.summary, type |-> node.type,
   timestamp |-> node.timestamp, embedding |-> node.embedding]

\* The properties of a todo's resolution.
StatusFields(node) ==
  [status |-> node.status, resolutionSummary |-> node.resolutionSummary,
   resolvedAt |-> node.resolvedAt]

\* C33: a step of any handler leaves every memory in the graph with its
\* content, summary, type, timestamp and embedding; its status,
\* resolutionSummary and resolvedAt change only in a step of updateTodoStatus
\* for that memory.
C33_MemoryImmutableExceptStatus ==
  [][\A m \in DOMAIN memories :
       /\ m \in DOMAIN memories'
       /\ Written(memories'[m]) = Written(memories[m])
       /\ StatusFields(memories'[m]) # StatusFields(memories[m]) =>
            /\ outcome'.op = "updateTodoStatus"
            /\ outcome'.args[1] = m]_vars

\* updateTodoStatus has resolved a memory and an entity it mentions was
\* merged into another afterwards.
C33_Witness ==
  /\ outcome.op = "mergeEntities"
  /\ outcome.ok
  /\ \E m \in DOMAIN memories :
       /\ memories[m].status = Some("done")
       /\ ~IsNull(memories[m].resolvedAt)
       /\ Written(memories[m]) =
            [content |-> m, summary |-> m, type |-> "todo", timestamp |-> m,
             embedding |-> m]

\* C34: getEntityHistory of an entity that was the keep side of a merge
\* returns only snapshots of that entity, as many as its version (or as the
\* limit allows).
C34_MergeLeavesKeepHistory ==
  (outcome.op = "getEntityHistory" /\ outcome.ok /\ outcome.args[1] \in Keepers) =>
    /\ \A i \in DOMAIN History : History[i].entityId = outcome.args[1]
    /\ Len(History) = Min(outcome.value.current.version, outcome.args[2])

(***************************************************************************)
(* GraphClient.getAllEntities                                              *)
(***************************************************************************)
\* count(m) over the rows of OPTIONAL MATCH (m:Memory)-[:MENTIONS]->(e): one
\* row per MENTIONS edge into e, and none counted when there is no edge.
CountedRows(g, id) == MentionsInto(g.mentions, id)

\* MATCH (e:Entity) ... RETURN e, count(m) as memoryCount
\* ORDER BY memoryCount DESC: every array the query can return, entities of
\* one count coming in any order.
getAllEntities(g) ==
  LET ids == DOMAIN g.entities
  IN {[i \in DOMAIN o |->
         [entity |-> [id |-> o[i], name |-> g.entities[o[i]].name,
                      type |-> g.entities[o[i]].type,
                      aliases |-> OrElse(g.entities[o[i]].aliases, <<>>)],
          memoryCount |-> CountedRows(g, o[i])]] :
      o \in {q \in [1..Cardinality(ids) -> ids] :
               /\ \A i, j \in DOMAIN q : i # j => q[i] # q[j]
               /\ \A i, j \in DOMAIN q :
                    i < j => CountedRows(g, q[i]) >= CountedRows(g, q[j])}}

GetAllEntities ==
  /\ UNCHANGED <<graph, inflight>>
  /\ \E value \in getAllEntities(Graph) :
       outcome' = Returned("getAllEntities", <<>>, value)
  /\ hist' = [hist EXCEPT !.pre = Graph]

(***************************************************************************)
(* SpecCounts: getAllEntities and findSimilarEntities over memories that   *)
(* mention one or two names.                                               *)
(***************************************************************************)
NextCounts ==
  \/ \E ents \in MentionLists :
       StoreMemory("episodic", Null, ents, <<>>, NoResolutions)
  \/ GetAllEntities
  \/ \E name \in Names : \E type \in QueryTypes :
       FindSimilarEntities(name, type, NoFulltext)

SpecCounts == Init /\ [][NextCounts]_vars

\* C35: every memoryCount that getAllEntities or findSimilarEntities
\* returns is the number of distinct memories that mention the entity.
C35_MemoryCountIsDistinctMemories ==
  (outcome.op \in {"getAllEntities", "findSimilarEntities"} /\ outcome.ok) =>
    \A i \in DOMAIN outcome.value :
      outcome.value[i].memoryCount =
        Cardinality(MentioningMemories(mentions, outcome.value[i].entity.id))

\* C36: a storeMemory call with one relationship, an endpoint of which has no
\* resolution, creates or refreshes one edge at most.
C36_EndpointNamesOneEntity ==
  (/\ Stored
   /\ outcome.ok
   /\ Len(Call.relationships) = 1
   /\ {Call.relationships[1].from, Call.relationships[1].to}
        \ DOMAIN Call.entityResolutions # {})
  => Cardinality(rels \ Pre.rels) <= 1

(***************************************************************************)
(* ClaudeClient.disambiguateTodo and MemorySystem.markTodoDone.  `answer`  *)
(* is what the model's reply parses to, or null when the request or the    *)
(* parse throws.                                                           *)
(***************************************************************************)
\* Return 0-based index, or -1 if ambiguous/none; catch (error) { return -1 }
disambiguateTodo(answer) ==
  IF IsNull(answer) THEN -1
  ELSE IF \/ answer[1].selectedIndex = 0
          \/ answer[1].selectedIndex = -1
          \/ answer[1].confidence # "high"
    THEN -1
  ELSE answer[1].selectedIndex - 1

\* resolutionSummary ? ... : "": an empty string is not written.
GivenSummary(resolutionSummary) ==
  IF resolutionSummary = "" THEN Null ELSE Some(resolutionSummary)

\* What markTodoDone does to the graph g: the open todos it found, the error
\* it throws or the todo it returns, and the graph it leaves.
markTodoDone(g, memoryAnswer, questionAnswer, answer, resolutionSummary, now) ==
  LET found == searchByVector(g, memoryAnswer, questionAnswer, 10)
      openTodos == FilterOpenTodos(found.value)
      choice == disambiguateTodo(answer)
      Done(todo) ==
        [openTodos |-> openTodos, error |-> Null, todo |-> Some(todo.id),
         graph |-> updateTodoStatusTx(g, todo.id, "done",
                                      GivenSummary(resolutionSummary), now)]
      Throws(message) ==
        [openTodos |-> openTodos, error |-> Some(message), todo |-> Null, graph |-> g]
  IN IF ~IsNull(found.error) THEN Throws("search failed")
     ELSE IF Len(openTodos) = 0 THEN Throws("No matching open todos found")
     ELSE IF Len(openTodos) > 1
       THEN IF choice = -1 THEN Throws("Ambiguous")
            ELSE IF choice + 1 \notin DOMAIN openTodos THEN Throws("Invalid todo selection")
            ELSE Done(openTodos[choice + 1])
     ELSE Done(openTodos[1])

MarkTodoDone(memoryAnswer, questionAnswer, answer, resolutionSummary, now) ==
  /\ now >= LatestStamp
  /\ UNCHANGED inflight
  /\ LET result == markTodoDone(Graph, memoryAnswer, questionAnswer, answer,
                                resolutionSummary, now)
     IN /\ Commit(result.graph)
        /\ outcome' = IF IsNull(result.error)
                        THEN Returned("markTodoDone", <<resolutionSummary>>,
                                      [id |-> result.todo[1]])
                        ELSE Threw("markTodoDone", <<resolutionSummary>>, result.error[1])
        /\ hist' = [hist EXCEPT
             !.pre = Graph,
             !.done = IF IsNull(result.error) THEN @ \cup {result.todo[1]} ELSE @,
             !.call = Some([openTodos |-> [i \in DOMAIN result.openTodos |->
                                             result.openTodos[i].id],
                            answer |-> answer])]

(***************************************************************************)
(* SpecDone: markTodoDone over memories and todos made by storeMemory.     *)
(***************************************************************************)
\* What the vector index answers: an error, or memories of the graph, each
\* once at most, by non-increasing score.
TodoAnswers == IndexAnswers(MemoryNodes, Cardinality(DOMAIN memories))
\* What the reply of the model parses to; null when nothing can be parsed.
TodoVerdicts ==
  {Null} \cup {Some(v) : v \in [selectedIndex : {-1, 0, 1, 2, 3},
                                 confidence : {"high", "low"}]}
GivenSummaries == {"", "fixed"}

NextDone ==
  \/ \E mtype \in MemoryTypes :
       StoreMemory(mtype, IF mtype = "todo" THEN Some("open") ELSE Null,
                   <<>>, <<>>, NoResolutions)
  \/ \E memoryAnswer \in TodoAnswers : \E answer \in TodoVerdicts :
       \E resolutionSummary \in GivenSummaries :
         MarkTodoDone(memoryAnswer, NoQuestionFound, answer, resolutionSummary, MaxClock)

SpecDone == Init /\ [][NextDone]_vars

\* The memories the last call changed.
ChangedMemories == {m \in DOMAIN memories : memories[m] # Pre.memories[m]}
\* The open todos among the hits of the last markTodoDone.
OpenHits == hist.call[1].openTodos
\* The disambiguator named one of the open todos with high confidence.
PickedOne ==
  /\ ~IsNull(hist.call[1].answer)
  /\ hist.call[1].answer[1].confidence = "high"
  /\ hist.call[1].answer[1].selectedIndex \in DOMAIN OpenHits

\* What markTodoDone changes, whatever summary it was given: one memory at
\* most, an open todo among the hits, which is set to done; none when it
\* throws, and it throws when no open todo was hit or when several were and
\* none was picked with high confidence.
MarkedOneOpenTodo ==
  (outcome.op = "markTodoDone" /\ ~IsNull(hist.call)) =>
    /\ Cardinality(ChangedMemories) <= 1
    /\ \A m \in ChangedMemories :
         /\ m \in Range(OpenHits)
         /\ Pre.memories[m].type = "todo"
         /\ Pre.memories[m].status # Some("done")
         /\ memories[m].status = Some("done")
         /\ Written(memories[m]) = Written(Pre.memories[m])
    /\ outcome.ok => ChangedMemories = {outcome.value.id}
    /\ ~outcome.ok => ChangedMemories = {}
    /\ (Len(OpenHits) = 0 \/ (Len(OpenHits) > 1 /\ ~PickedOne)) => ~outcome.ok

\* C37: markTodoDone changes one memory at most, an open todo among the
\* search hits, which it sets to done with the resolution summary it was
\* given; it throws and changes nothing when no open todo was hit, or when
\* several were and the disambiguator picked none with high confidence.
C37_MarkTodoDoneOneOpenTodo ==
  /\ MarkedOneOpenTodo
  /\ (outcome.op = "markTodoDone" /\ outcome.ok) =>
       memories[outcome.value.id].resolutionSummary = Some(outcome.args[1])


====
